---- MODULE Spec2Model ----
(***************************************************************************)
(* Task lifecycle engine of the warehouse management service.              *)
(*                                                                         *)
(* The database is PostgreSQL at READ COMMITTED.  Every SQL statement of a *)
(* service is one step; the writes of a transaction stay in a private      *)
(* overlay until COMMIT, row locks are held until COMMIT or ROLLBACK.      *)
(* A statement that has to wait for a row lock is a step that is not       *)
(* enabled while another transaction holds the lock.  The one statement    *)
(* that tests other tables than the one it locks (the operator query of    *)
(* assignTasks) is two steps: the evaluation against its snapshot, then    *)
(* the locking of the rows found.                                          *)
(*                                                                         *)
(*   Spec        two updateTaskStatus callers and an assignTasks worker    *)
(*               on one task                                               *)
(*   SpecAssign  two assignTasks workers and an updateTaskStatus caller    *)
(*               on two tasks and two operators                            *)
(*   SpecGen     two generateTasksForOrderEvent workers on an empty        *)
(*               tasks table                                               *)
(***************************************************************************)
EXTENDS Integers, Sequences, FiniteSets, TLC

\* SQL NULL / JavaScript null, in a column or variable that holds a string
None == "none"

\* no row: the result of a query that found nothing, an empty overlay slot
NoRow == [status |-> None]

\* expectedVersion absent (parseExpectedVersion returns null); versions are positive
NoVersion == 0

----------------------------------------------------------------------------
\* Bounds of the model

\* updateTaskStatus calls are started only on tasks below this version:
\* in the configuration with one task, and in the one with two tasks
MaxVersion == 5
MaxVersionAssign == 3

\* GhostOperator is a well-formed UUID with no operators row
GhostOperator == "ghost"

\* a well-formed task UUID with no tasks row
MissingTask == 0

Zones == {"zA", "zB"}

----------------------------------------------------------------------------
\* taskModel.js / taskService.js

TASK_STATUSES ==
  {"created", "assigned", "in_progress", "paused", "completed", "cancelled", "failed"}

STATE_TRANSITIONS ==
  [s \in TASK_STATUSES |->
     CASE s = "created"     -> {"assigned"}
       [] s = "assigned"    -> {"in_progress"}
       [] s = "in_progress" -> {"completed", "paused"}
       [] s = "paused"      -> {"in_progress"}
       [] OTHER             -> {}]

isValidTaskTransition(currentStatus, nextStatus) ==
  IF currentStatus = nextStatus THEN FALSE
  ELSE IF nextStatus = "cancelled" THEN TRUE
  ELSE nextStatus \in STATE_TRANSITIONS[currentStatus]

ACTIVE_TASK_STATUSES == {"assigned", "in_progress", "paused"}

----------------------------------------------------------------------------
VARIABLES
  tasks,       \* tasks table, committed rows: id -> row
  audit,       \* task_status_audit_logs, committed rows per task in insertion order
  operators,   \* operators table joined with operator_zones and today's labor_daily_metrics
  tlock,       \* row lock on a tasks row: holder or None
  olock,       \* row lock on an operators row: holder or None
  upc,         \* updateTaskStatus: position of each caller
  ucall,       \* updateTaskStatus: arguments of the call in progress
  ucur,        \* updateTaskStatus: currentTask read by SELECT ... FOR UPDATE
  uw,          \* updateTaskStatus: row written by UPDATE, not yet committed
  uaud,        \* updateTaskStatus: audit row inserted, not yet committed
  ures,        \* updateTaskStatus: outcome of the call ("ok" or the HTTP status)
  apc,         \* assignTasks: position of each assigner
  acand,       \* assignTasks: candidateTasks, locked, in query order
  ascan,       \* assignTasks: operators qualifying under the statement snapshot, in order
  asel,        \* assignTasks: selectedOperator
  aw,          \* assignTasks: rows written by UPDATE, not yet committed: id -> row
  aaud,        \* assignTasks: audit rows inserted, not yet committed
  astats,      \* assignTasks: stats of the cycle
  aevents,     \* assignTasks: realtimeEvents collected by the cycle, not yet published
  events,      \* task_generation_events, committed rows in insertion order
  gpc,         \* generateTasksForOrderEvent: position of each worker
  gev,         \* generateTasksForOrderEvent: normalizedEvent, as far as it was read
  gnow,        \* generateTasksForOrderEvent: NOW() of the transaction
  gspecs,      \* generateTasksForOrderEvent: taskSpecs and lines still to insert
  gw,          \* generateTasksForOrderEvent: event row and task rows inserted, not yet committed
  gres,        \* generateTasksForOrderEvent: outcome of the call
  channel,     \* realtime channel: messages published and not yet handled by the subscriber
  isSubscribed,\* eventBus: the socket server of this deployment has subscribed to the channel
  redisUp,     \* the pub/sub server accepts PUBLISH
  emitted,     \* socket server: the (room, event) pairs emitted so far
  io,          \* socket server: the socket.io server exists
  subscribers, \* eventBus: the handlers of the subscribers set, in insertion order
  invoked,     \* eventBus: the (handler, message) pairs of the handler calls made so far
  sockets,     \* socket server: the sockets that tried to connect, with their rooms
  connectedUsers, \* socket server: user id -> the ids of the user's connected sockets
  jwtSecret,   \* socket server: JWT_SECRET is set in the environment
  spc,         \* socket server: position of initializeSocketServer / closeSocketServer
  isRunning,   \* assignment worker process: isRunning
  intervalHandle, \* assignment worker process: the interval timer is set
  wpc,         \* assignment worker process: runAssignmentCycle awaits assignTasks, or "none"
  wlog,        \* assignment worker process: its last log line
  wproc,       \* assignment worker process: starting, up, ending (pool.end pending), exited
  runOnStartup,   \* metrics worker: LABOR_METRICS_RUN_ON_STARTUP
  timeoutHandle,  \* metrics worker: timeoutHandle is not null
  timerPending,   \* metrics worker: a timer is armed
  isShuttingDown, \* metrics worker: isShuttingDown
  runningPromise, \* metrics worker: runningPromise is not null
  mcycle,      \* metrics worker: runAggregationCycle: none, running, settled
  mpc,         \* metrics worker: position of start and of the timer callback
  mlog,        \* metrics worker: its last log line
  msd,         \* metrics worker: position of shutdown
  laborDailyMetrics, \* labor_daily_metrics, committed rows: <<operator, date>> -> row
  mstats,      \* metrics worker: result of the last aggregateLaborDailyMetrics call
  fcall,       \* a call of a pure function: its name and arguments
  fret,        \* the outcome of that call
  jobs,        \* task generation queue: job id -> job
  tx,          \* one execution of a transactional function: its transaction and pool client
  sched        \* metrics worker on a clock: the time, the zone and the scheduled runs

uvars == <<upc, ucall, ucur, uw, uaud, ures>>
avars == <<apc, acand, ascan, asel, aw, aaud, astats, aevents>>
dbvars == <<tasks, audit, operators, tlock, olock>>
gvars == <<events, gpc, gev, gnow, gspecs, gw, gres>>
busvars == <<isSubscribed, redisUp, emitted, io, subscribers, invoked, sockets, jwtSecret, spc,
             connectedUsers>>
rvars == <<channel, busvars>>
wvars == <<isRunning, intervalHandle, wpc, wlog, wproc>>
mvars == <<runOnStartup, timeoutHandle, timerPending, isShuttingDown, runningPromise, mcycle, mpc, mlog, msd,
          laborDailyMetrics, mstats>>
fvars == <<fcall, fret>>
xvars == <<fvars, jobs, tx, sched>>
vars == <<dbvars, uvars, avars, gvars, rvars, wvars, mvars, xvars>>

----------------------------------------------------------------------------
\* Helpers

\* seconds of a day
SECONDS_PER_DAY == 86400

\* seconds from the creation of a task to its first update, and from one
\* update of its row to the next
TickSeconds == 28800

\* NULL in started_at and completed_at; every instant of the clock is positive
NoTime == 0

\* NULL in actual_time_seconds; the column is checked to be >= 0
NoDuration == -1

\* no date: no aggregation has run; the days of the clock are not negative
NoDate == -1

\* NOW() of the transaction that writes the next version of the row.  The
\* row was created on day createdAt, and the transactions that write it
\* are taken to start in the order they write, one tick apart.
Now(row) == row.createdAt * SECONDS_PER_DAY + row.version * TickSeconds

\* GREATEST(a, b)
GREATEST(a, b) == IF a >= b THEN a ELSE b

\* the calendar day of an instant ($1::date)
DateOf(time) == time \div SECONDS_PER_DAY

\* priorities task generation gives to pick tasks (far and near ship date)
Priorities == {50, 90}

\* tasks row as inserted by createTaskWithLines and the column defaults.
\* lines are the task_lines rows of the task.  eventKey is not a column: it
\* records which event the inserting transaction was processing.
NewTaskRow(taskSpec, eventKey, createdAt) ==
  [status |-> "created", operator |-> None, version |-> 1, zone |-> taskSpec.zoneId,
   priority |-> taskSpec.priority, createdAt |-> createdAt,
   startedAt |-> NoTime, completedAt |-> NoTime, actualTime |-> NoDuration,
   type |-> taskSpec.type, sourceDocumentId |-> taskSpec.sourceDocumentId,
   estimatedTime |-> taskSpec.estimatedTimeSeconds, lines |-> <<>>, eventKey |-> eventKey]

\* all enumerations of the finite set S that respect the strict order Before
SortedSeqs(S, Before(_, _)) ==
  {s \in [1..Cardinality(S) -> S] :
     /\ \A i, j \in 1..Cardinality(S) : i # j => s[i] # s[j]
     /\ \A i, j \in 1..Cardinality(S) : i < j => ~Before(s[j], s[i])}

\* first n elements of a sequence (LIMIT n)
Limit(s, n) == IF Len(s) <= n THEN s ELSE SubSeq(s, 1, n)

\* the holder p gives up every row lock it has (COMMIT / ROLLBACK)
ReleaseLocks(lock, p) == [x \in DOMAIN lock |-> IF lock[x] = p THEN None ELSE lock[x]]

\* rows without row-level locks: nobody ever waits
LockableAlways(lock, x, p) == TRUE

\* a row lock can be taken by p: nobody else holds it
Lockable(lock, x, p) == lock[x] \in {None, p}

----------------------------------------------------------------------------
\* Initial states: tasks as task generation leaves them, nobody running.
\* The rows of tasks and operators and the running processes are the domains
\* of the variables, so each specification starts from its own configuration.

\* tasks with ids T (in insertion order): created, version 1, no operator.
\* Task 1 is a priority-50 task of zone zA; the others vary.
InitTasks(T) ==
  LET Row(zone, priority, t) ==
        [NewTaskRow([type |-> "pick", priority |-> priority, zoneId |-> zone,
                     sourceDocumentId |-> "SO:1", estimatedTimeSeconds |-> 102], "k1", t)
           EXCEPT !.lines = <<[skuId |-> 1, fromLocationId |-> 1, toLocationId |-> None,
                               quantity |-> 1, status |-> "created"]>>]
  IN {f \in [T -> UNION {{Row(z, pr, t) : z \in Zones, pr \in Priorities} : t \in T}] :
        \A t \in T : f[t].createdAt = t /\ (t = 1 => f[t].zone = "zA" /\ f[t].priority = 50)}

\* the text of a TIME column: HH:MM:SS
jsTime(hour, minute, second) == [t |-> "time", hour |-> hour, minute |-> minute, second |-> second]

\* operators with their zones (operator_zones) and today's tasks_completed
\* (labor_daily_metrics): o1 serves zone zA, every other operator zone zB
InitOperators(O) ==
  [o \in O |-> [status |-> "available", zones |-> IF o = "o1" THEN {"zA"} ELSE {"zB"},
                workload |-> 0, performanceScore |-> 1,
                createdAt |-> IF o = "o1" THEN 1 ELSE 2,
                shiftStart |-> IF o = "o1" THEN jsTime(6, 0, 0) ELSE jsTime(22, 0, 0),
                shiftEnd |-> IF o = "o1" THEN jsTime(18, 0, 0) ELSE jsTime(6, 0, 0)]]

NoCall == [taskId |-> MissingTask, newStatus |-> None, expectedVersion |-> NoVersion, changedByOperatorId |-> None]

NoStats ==
  [scannedTasks |-> 0, assignedTasks |-> 0, unassignedTasks |-> 0, realtimePublishFailures |-> 0]

InitProcs(U, A, T) ==
  /\ upc = [p \in U |-> "idle"]
  /\ ucall = [p \in U |-> NoCall]
  /\ ucur = [p \in U |-> NoRow]
  /\ uw = [p \in U |-> NoRow]
  /\ uaud = [p \in U |-> NoRow]
  /\ ures = [p \in U |-> None]
  /\ apc = [a \in A |-> "idle"]
  /\ acand = [a \in A |-> <<>>]
  /\ ascan = [a \in A |-> <<>>]
  /\ asel = [a \in A |-> None]
  /\ aw = [a \in A |-> [t \in T |-> NoRow]]
  /\ aaud = [a \in A |-> <<>>]
  /\ astats = [a \in A |-> NoStats]
  /\ aevents = [a \in A |-> <<>>]

NoEvent == [eventKey |-> None, type |-> None, daysUntilShip |-> 0, lines |-> <<>>]

NoWrites == [eventKey |-> None, tasks |-> <<>>]

NoResult == [error |-> None, skipped |-> FALSE, reason |-> None, tasks |-> <<>>]

InitWorkers(W) ==
  /\ gpc = [w \in W |-> "idle"]
  /\ gev = [w \in W |-> NoEvent]
  /\ gnow = [w \in W |-> 0]
  /\ gspecs = [w \in W |-> <<>>]
  /\ gw = [w \in W |-> NoWrites]
  /\ gres = [w \in W |-> NoResult]

\* the handler initializeSocketServer passes to subscribeRealtimeEvents
broadcastHandler == "broadcast"

\* the broadcast handler is in the subscribers set
handler == \E i \in DOMAIN subscribers : subscribers[i] = broadcastHandler

\* connectedUsers without an entry
NoUsers == [u \in {} |-> {}]

\* the realtime channel is empty; subscribed tells whether a socket server
\* of the deployment listens on it
InitBus(subscribed) ==
  /\ channel = <<>>
  /\ isSubscribed = subscribed
  /\ redisUp = TRUE
  /\ emitted = {}
  /\ io = subscribed
  /\ subscribers = IF subscribed THEN <<broadcastHandler>> ELSE <<>>
  /\ invoked = {}
  /\ sockets = [s \in {} |-> None]
  /\ connectedUsers = NoUsers
  /\ jwtSecret = TRUE
  /\ spc = IF subscribed THEN "up" ELSE "down"

\* no transactional function is being followed
NoExecution == [pc |-> None]

\* the metrics worker is not followed on a clock
NoSchedule == [pc |-> None]

\* no pure function is being called, and there is no task generation queue
InitNoCalls ==
  /\ fcall = [fn |-> None]
  /\ fret = [state |-> None]
  /\ jobs = [j \in {} |-> None]
  /\ tx = NoExecution
  /\ sched = NoSchedule

\* the assignment worker processes W, before start(); an assigner outside W
\* is an assignTasks caller without a worker process around it
InitAssignmentWorkers(W) ==
  /\ isRunning = [w \in W |-> FALSE]
  /\ intervalHandle = [w \in W |-> FALSE]
  /\ wpc = [w \in W |-> "none"]
  /\ wlog = [w \in W |-> None]
  /\ wproc = [w \in W |-> "starting"]

\* no aggregateLaborDailyMetrics call has returned
NoAggregation ==
  [date |-> NoDate, operatorsProcessed |-> 0, insertedCount |-> 0, updatedCount |-> 0,
   totalTasksCompleted |-> 0, totalUnitsProcessed |-> 0]

\* the metrics worker process before start(), or no metrics worker
InitMetricsWorker(present) ==
  /\ runOnStartup \in IF present THEN BOOLEAN ELSE {FALSE}
  /\ timeoutHandle = FALSE
  /\ timerPending = FALSE
  /\ isShuttingDown = FALSE
  /\ runningPromise = FALSE
  /\ mcycle = "none"
  /\ mpc = IF present THEN "start" ELSE "absent"
  /\ mlog = None
  /\ msd = "none"
  /\ laborDailyMetrics = [k \in {} |-> None]
  /\ mstats = NoAggregation

\* no worker processes
InitNoWorkerProcesses == InitAssignmentWorkers({}) /\ InitMetricsWorker(FALSE)

InitDb(T, O) ==
  /\ events = <<>>
  /\ tasks \in InitTasks(T)
  /\ audit = [t \in T |-> <<>>]
  /\ operators = InitOperators(O)
  /\ tlock = [t \in T |-> None]
  /\ olock = [o \in O |-> None]

\* two API callers and one assignment worker on one task
Init ==
  /\ InitDb({1}, {"o1"}) /\ InitProcs({"u1", "u2"}, {"a1"}, {1}) /\ InitWorkers({}) /\ InitNoCalls /\ InitBus(FALSE)
  /\ InitNoWorkerProcesses

\* two assignment workers and one API caller on two tasks
InitAssign ==
  /\ InitDb({1, 2}, {"o1", "o2"}) /\ InitProcs({"u1"}, {"a1", "a2"}, {1, 2}) /\ InitWorkers({}) /\ InitNoCalls
  /\ InitBus(FALSE)
  /\ InitNoWorkerProcesses

----------------------------------------------------------------------------
\* realtime/eventBus.js and the events of the task services

\* a key the payload does not have
Absent == "absent"

TASK_UPDATED == "TASK_UPDATED"
TASK_ASSIGNED == "TASK_ASSIGNED"

\* the payload of both task events, reduced to the task, its new status and
\* version, and the three keys an operator identifier can come under
TaskPayload(taskId, row) ==
  [taskId |-> taskId, status |-> row.status, version |-> row.version,
   operatorId |-> row.operator, operator_id |-> Absent, assignedOperatorId |-> Absent]

TaskEvent(type, taskId, row) == [type |-> type, payload |-> TaskPayload(taskId, row)]

\* publishRealtimeEvent resolves when the pub/sub server accepts the PUBLISH
\* and throws otherwise
PublishSucceeds == redisUp

\* PUBLISH: the message reaches the connections subscribed at that moment
Published(event) == IF isSubscribed THEN Append(channel, event) ELSE channel

----------------------------------------------------------------------------
\* taskService.js: updateTaskStatus
\*
\* An argument of the call is drawn at the step that first reads it.  Once an
\* error is thrown the arguments and the row read are dead and are dropped;
\* only a version mismatch keeps the expected version and the row it was
\* compared with, which is what the 409 message reports.

\* the HttpError thrown inside the try block: remembered, ROLLBACK follows
UThrow(p, code) ==
  /\ ures' = [ures EXCEPT ![p] = code]
  /\ upc' = [upc EXCEPT ![p] = "rollback"]
  /\ ucall' = [ucall EXCEPT ![p] = NoCall]
  /\ ucur' = [ucur EXCEPT ![p] = NoRow]

\* the bound of the configuration: calls start only on tasks below this version
VersionCap ==
  IF Cardinality(DOMAIN tasks) = 1 \/ DOMAIN apc = {} THEN MaxVersion ELSE MaxVersionAssign

\* argument validation, pool.connect, BEGIN, then
\* SELECT id FROM operators WHERE id = $1 when changedByOperatorId is given
UBegin(p, taskId, changedByOperatorId) ==
  /\ upc[p] \in {"idle", "done"}
  /\ taskId \in DOMAIN tasks => tasks[taskId].version < VersionCap
  /\ uw' = [uw EXCEPT ![p] = NoRow]
  /\ uaud' = [uaud EXCEPT ![p] = NoRow]
  /\ IF changedByOperatorId # None /\ changedByOperatorId \notin DOMAIN operators
       THEN UThrow(p, "400")
       ELSE /\ ucall' = [ucall EXCEPT ![p] =
                 [NoCall EXCEPT !.taskId = taskId, !.changedByOperatorId = changedByOperatorId]]
            /\ ucur' = [ucur EXCEPT ![p] = NoRow]
            /\ ures' = [ures EXCEPT ![p] = None]
            /\ upc' = [upc EXCEPT ![p] = "select"]
  /\ UNCHANGED <<dbvars, avars>>
  /\ UNCHANGED <<gvars, rvars, wvars, mvars, xvars>>

\* the optimistic-lock test left out: no expected version is ever stale
VersionMismatchNever(expectedVersion, currentVersion) == FALSE

\* the optimistic-lock test on the row just read
VersionMismatch(expectedVersion, currentVersion) ==
  expectedVersion # NoVersion /\ expectedVersion # currentVersion

\* SELECT ... WHERE t.id = $1 FOR UPDATE, then the version and transition checks
USelectForUpdate(p, newStatus, expectedVersion) ==
  /\ upc[p] = "select"
  /\ IF ucall[p].taskId \notin DOMAIN tasks
       THEN /\ UThrow(p, "404")
            /\ UNCHANGED tlock
       ELSE /\ Lockable(tlock, ucall[p].taskId, p)
            /\ tlock' = [tlock EXCEPT ![ucall[p].taskId] = p]
            /\ IF VersionMismatch(expectedVersion, tasks[ucall[p].taskId].version)
                 THEN /\ ures' = [ures EXCEPT ![p] = "409"]
                      /\ upc' = [upc EXCEPT ![p] = "rollback"]
                      /\ ucall' = [ucall EXCEPT ![p].expectedVersion = expectedVersion]
                      /\ ucur' = [ucur EXCEPT ![p] = tasks[ucall[p].taskId]]
                 ELSE IF ~isValidTaskTransition(tasks[ucall[p].taskId].status, newStatus)
                   THEN UThrow(p, "409")
                   ELSE /\ ucall' = [ucall EXCEPT ![p].newStatus = newStatus,
                                                  ![p].expectedVersion = expectedVersion]
                        /\ ucur' = [ucur EXCEPT ![p] = tasks[ucall[p].taskId]]
                        /\ upc' = [upc EXCEPT ![p] = "update"]
                        /\ UNCHANGED ures
  /\ UNCHANGED <<uw, uaud, tasks, audit, operators, olock, avars>>
  /\ UNCHANGED <<gvars, rvars, wvars, mvars, xvars>>

\* the SET clause without version = version + 1
UpdatedRowSameVersion(row, newStatus) ==
  [row EXCEPT
     !.status = newStatus,
     !.startedAt = IF newStatus = "in_progress" /\ row.startedAt = NoTime THEN Now(row) ELSE row.startedAt,
     !.completedAt = IF newStatus = "completed" THEN Now(row) ELSE row.completedAt,
     !.actualTime = IF newStatus = "completed" /\ row.startedAt # NoTime
                      THEN GREATEST(Now(row) - row.startedAt, 0) ELSE row.actualTime]

\* the SET clause with started_at = NOW() at every transition to in_progress
UpdatedRowRestartsClock(row, newStatus) ==
  [row EXCEPT
     !.status = newStatus,
     !.startedAt = IF newStatus = "in_progress" THEN Now(row) ELSE row.startedAt,
     !.completedAt = IF newStatus = "completed" THEN Now(row) ELSE row.completedAt,
     !.actualTime = IF newStatus = "completed" /\ row.startedAt # NoTime
                      THEN GREATEST(Now(row) - row.startedAt, 0) ELSE row.actualTime,
     !.version = row.version + 1]

\* the SET clause of the UPDATE in updateTaskStatus
UpdatedRow(row, newStatus) ==
  [row EXCEPT
     !.status = newStatus,
     !.startedAt = IF newStatus = "in_progress" /\ row.startedAt = NoTime THEN Now(row) ELSE row.startedAt,
     !.completedAt = IF newStatus = "completed" THEN Now(row) ELSE row.completedAt,
     !.actualTime = IF newStatus = "completed" /\ row.startedAt # NoTime
                      THEN GREATEST(Now(row) - row.startedAt, 0) ELSE row.actualTime,
     !.version = row.version + 1]

\* UPDATE tasks SET ... WHERE id = $1 AND version = $3 RETURNING ...
UUpdate(p) ==
  /\ upc[p] = "update"
  /\ Lockable(tlock, ucall[p].taskId, p)
  /\ tlock' = [tlock EXCEPT ![ucall[p].taskId] = p]
  /\ IF tasks[ucall[p].taskId].version = ucur[p].version
       THEN /\ uw' = [uw EXCEPT ![p] = UpdatedRow(tasks[ucall[p].taskId], ucall[p].newStatus)]
            /\ upc' = [upc EXCEPT ![p] = "audit"]
            /\ UNCHANGED <<ucall, ucur, ures>>
       ELSE /\ UThrow(p, "409")
            /\ UNCHANGED uw
  /\ UNCHANGED <<uaud, tasks, audit, operators, olock, avars>>
  /\ UNCHANGED <<gvars, rvars, wvars, mvars, xvars>>

\* INSERT INTO task_status_audit_logs (...)
UInsertAudit(p) ==
  /\ upc[p] = "audit"
  /\ uaud' = [uaud EXCEPT ![p] =
       [fromStatus |-> ucur[p].status, toStatus |-> ucall[p].newStatus,
        taskVersion |-> uw[p].version, changedBy |-> ucall[p].changedByOperatorId]]
  /\ upc' = [upc EXCEPT ![p] = "commit"]
  /\ UNCHANGED <<ucall, ucur, uw, ures, dbvars, avars>>
  /\ UNCHANGED <<gvars, rvars, wvars, mvars, xvars>>

\* COMMIT; updatedTask is kept for the events and the return value
UCommit(p) ==
  /\ upc[p] = "commit"
  /\ tasks' = [tasks EXCEPT ![ucall[p].taskId] = uw[p]]
  /\ audit' = [audit EXCEPT ![ucall[p].taskId] = Append(@, uaud[p])]
  /\ tlock' = ReleaseLocks(tlock, p)
  /\ upc' = [upc EXCEPT ![p] = "publish"]
  /\ ucur' = [ucur EXCEPT ![p] = NoRow]
  /\ uaud' = [uaud EXCEPT ![p] = NoRow]
  /\ UNCHANGED <<ucall, uw, ures, operators, olock, avars>>
  /\ UNCHANGED <<gvars, rvars, wvars, mvars, xvars>>

\* return updatedTask; finally: client.release
UReturn(p) ==
  /\ ures' = [ures EXCEPT ![p] = "ok"]
  /\ upc' = [upc EXCEPT ![p] = "done"]
  /\ uw' = [uw EXCEPT ![p] = NoRow]

\* the try block after COMMIT: publish TASK_UPDATED, then TASK_ASSIGNED when
\* the task is assigned and has an operator; the first publish that throws
\* ends the block (catch: log only)
UPublish(p) ==
  /\ upc[p] \in {"publish", "publishAssigned"}
  /\ channel' =
       IF PublishSucceeds
         THEN Published(TaskEvent(IF upc[p] = "publish" THEN TASK_UPDATED ELSE TASK_ASSIGNED,
                                  ucall[p].taskId, uw[p]))
         ELSE channel
  /\ IF /\ PublishSucceeds
        /\ upc[p] = "publish"
        /\ uw[p].status = "assigned"
        /\ uw[p].operator # None
       THEN /\ upc' = [upc EXCEPT ![p] = "publishAssigned"]
            /\ UNCHANGED <<uw, ures>>
       ELSE UReturn(p)
  /\ UNCHANGED <<ucall, ucur, uaud, dbvars, avars>>
  /\ UNCHANGED <<gvars, busvars, wvars, mvars, xvars>>

\* a statement of the transaction (the SELECT, the UPDATE, the INSERT or the
\* COMMIT) raises a database error: the catch block is entered with whatever
\* the transaction has written so far
UStatementFails(p) ==
  /\ upc[p] \in {"select", "update", "audit", "commit"}
  /\ UThrow(p, "500")
  /\ UNCHANGED <<uw, uaud, dbvars, avars>>
  /\ UNCHANGED <<gvars, rvars, wvars, mvars, xvars>>

\* catch: COMMIT where the code has ROLLBACK
URollbackCommits(p) ==
  /\ upc[p] = "rollback"
  /\ tasks' = [t \in DOMAIN tasks |-> IF tlock[t] = p /\ uw[p] # NoRow THEN uw[p] ELSE tasks[t]]
  /\ audit' = [t \in DOMAIN tasks |->
                 IF tlock[t] = p /\ uaud[p] # NoRow THEN Append(audit[t], uaud[p]) ELSE audit[t]]
  /\ tlock' = ReleaseLocks(tlock, p)
  /\ uw' = [uw EXCEPT ![p] = NoRow]
  /\ uaud' = [uaud EXCEPT ![p] = NoRow]
  /\ upc' = [upc EXCEPT ![p] = "done"]
  /\ UNCHANGED <<ucall, ucur, ures, operators, olock, avars>>
  /\ UNCHANGED <<gvars, rvars, wvars, mvars, xvars>>

\* catch: ROLLBACK, the error is rethrown; finally: client.release
URollback(p) ==
  /\ upc[p] = "rollback"
  /\ tlock' = ReleaseLocks(tlock, p)
  /\ uw' = [uw EXCEPT ![p] = NoRow]
  /\ uaud' = [uaud EXCEPT ![p] = NoRow]
  /\ upc' = [upc EXCEPT ![p] = "done"]
  /\ UNCHANGED <<ucall, ucur, ures, tasks, audit, operators, olock, avars>>
  /\ UNCHANGED <<gvars, rvars, wvars, mvars, xvars>>

----------------------------------------------------------------------------
\* taskAssignmentService.js: assignTasks

\* LIMIT $1 of lockCandidateTasks: options.batchSize of the cycle
batchSize == 2

\* what a statement of transaction a reads in tasks: the committed row, or its own write
Visible(a, t) == IF aw[a][t].status # None THEN aw[a][t] ELSE tasks[t]

\* NOT EXISTS (SELECT 1 FROM tasks t WHERE t.assigned_operator_id = o.id AND t.status = ANY(active))
HasNoActiveTask(a, o) ==
  ~\E t \in DOMAIN tasks :
     Visible(a, t).operator = o /\ Visible(a, t).status \in ACTIVE_TASK_STATUSES

\* SELECT COUNT(*) FROM operators o WHERE o.status = 'available' AND NOT EXISTS (...)
getAvailableOperatorCount(a) ==
  Cardinality({o \in DOMAIN operators :
                 operators[o].status = "available" /\ HasNoActiveTask(a, o)})

\* ORDER BY t.created_at ASC only: the priority is ignored
TaskBeforeByAge(t1, t2) == tasks[t1].createdAt < tasks[t2].createdAt

\* ORDER BY t.priority DESC, t.created_at ASC
TaskBefore(t1, t2) ==
  \/ tasks[t1].priority > tasks[t2].priority
  \/ tasks[t1].priority = tasks[t2].priority /\ tasks[t1].createdAt < tasks[t2].createdAt

\* ORDER BY workload ASC, o.performance_score DESC, o.created_at ASC
OperatorBefore(o1, o2) ==
  \/ operators[o1].workload < operators[o2].workload
  \/ /\ operators[o1].workload = operators[o2].workload
     /\ operators[o1].performanceScore > operators[o2].performanceScore
  \/ /\ operators[o1].workload = operators[o2].workload
     /\ operators[o1].performanceScore = operators[o2].performanceScore
     /\ operators[o1].createdAt < operators[o2].createdAt

\* the rows the WHERE clause of findBestAvailableOperatorForZone keeps
QualifyingOperators(a, zoneId) ==
  {o \in DOMAIN operators :
     /\ zoneId \in operators[o].zones
     /\ operators[o].status = "available"
     /\ HasNoActiveTask(a, o)}

\* the loop of assignTasks moves on to the next candidate, or to COMMIT after the last
ANextCandidate(a) ==
  /\ acand' = [acand EXCEPT ![a] = Tail(@)]
  /\ apc' = [apc EXCEPT ![a] = IF Len(acand[a]) > 1 THEN "scan" ELSE "commit"]

\* pool.connect, BEGIN, getAvailableOperatorCount (a read whose result only
\* goes to the log line of the cycle: stats.availableOperators is not kept)
ABegin(a) ==
  /\ apc[a] \in {"idle", "done", "failed"}
  /\ a \in DOMAIN wpc => (wpc[a] = "awaiting" /\ apc[a] = "idle")
  /\ getAvailableOperatorCount(a) \in 0..Cardinality(DOMAIN operators)
  /\ astats' = [astats EXCEPT ![a] = NoStats]
  /\ aevents' = [aevents EXCEPT ![a] = <<>>]
  /\ apc' = [apc EXCEPT ![a] = "lock"]
  /\ UNCHANGED <<acand, ascan, asel, aw, aaud, dbvars, uvars>>
  /\ UNCHANGED <<gvars, rvars, wvars, mvars, xvars>>

\* lockCandidateTasks: SELECT ... WHERE status = 'created' ORDER BY ... LIMIT $1
\* FOR UPDATE SKIP LOCKED.  The predicate is on the locked row itself and is
\* re-checked on the row version that gets locked, so the rows are those that
\* are created and lockable when the locks are taken.
ALockCandidates(a) ==
  /\ apc[a] = "lock"
  /\ \E s \in SortedSeqs({t \in DOMAIN tasks : tasks[t].status = "created" /\ Lockable(tlock, t, a)},
                         TaskBefore) :
       /\ acand' = [acand EXCEPT ![a] = Limit(s, batchSize)]
       /\ tlock' = [t \in DOMAIN tlock |->
                      IF \E i \in 1..Len(Limit(s, batchSize)) : Limit(s, batchSize)[i] = t
                        THEN a ELSE tlock[t]]
       /\ astats' = [astats EXCEPT ![a].scannedTasks = Len(Limit(s, batchSize))]
       /\ apc' = [apc EXCEPT ![a] = IF Len(s) > 0 THEN "scan" ELSE "commit"]
  /\ UNCHANGED <<ascan, asel, aw, aaud, tasks, audit, operators, olock, uvars, aevents>>
  /\ UNCHANGED <<gvars, rvars, wvars, mvars, xvars>>

\* findBestAvailableOperatorForZone, first half of the statement: the join, the
\* WHERE clause with its NOT EXISTS over tasks and the ORDER BY are evaluated
\* against the snapshot taken when the statement starts.
AFindScan(a) ==
  /\ apc[a] = "scan"
  /\ \E s \in SortedSeqs(QualifyingOperators(a, tasks[Head(acand[a])].zone), OperatorBefore) :
       ascan' = [ascan EXCEPT ![a] = s]
  /\ apc' = [apc EXCEPT ![a] = "pick"]
  /\ UNCHANGED <<acand, asel, aw, aaud, astats, dbvars, uvars, aevents>>
  /\ UNCHANGED <<gvars, rvars, wvars, mvars, xvars>>

\* the operator rows of the sorted result that FOR UPDATE OF o SKIP LOCKED can lock
LockableOperators(a, s) == SelectSeq(s, LAMBDA o : Lockable(olock, o, a))

\* findBestAvailableOperatorForZone, second half of the statement: LIMIT 1 FOR
\* UPDATE OF o SKIP LOCKED walks the sorted rows and locks the first one that no
\* other transaction holds.  A row whose lock holder has committed meanwhile is
\* lockable, and as the operators row itself was not updated the WHERE clause
\* is not evaluated again.
AFindLock(a) ==
  /\ apc[a] = "pick"
  /\ ascan' = [ascan EXCEPT ![a] = <<>>]
  /\ IF LockableOperators(a, ascan[a]) = <<>>
       THEN /\ astats' = [astats EXCEPT ![a].unassignedTasks = @ + 1]
            /\ ANextCandidate(a)
            /\ UNCHANGED <<asel, olock>>
       ELSE /\ asel' = [asel EXCEPT ![a] = Head(LockableOperators(a, ascan[a]))]
            /\ olock' = [olock EXCEPT ![Head(LockableOperators(a, ascan[a]))] = a]
            /\ apc' = [apc EXCEPT ![a] = "assign"]
            /\ UNCHANGED <<acand, astats>>
  /\ UNCHANGED <<aw, aaud, tasks, audit, operators, tlock, uvars, aevents>>
  /\ UNCHANGED <<gvars, rvars, wvars, mvars, xvars>>

\* the SET clause of the UPDATE in assignTaskToOperator
AssignedRow(row, operatorId) ==
  [row EXCEPT !.status = "assigned", !.operator = operatorId, !.version = row.version + 1]

\* assignTaskToOperator: UPDATE tasks SET ... WHERE id = $1 AND status = 'created'
AAssignUpdate(a) ==
  /\ apc[a] = "assign"
  /\ Lockable(tlock, Head(acand[a]), a)
  /\ tlock' = [tlock EXCEPT ![Head(acand[a])] = a]
  /\ asel' = [asel EXCEPT ![a] = None]
  /\ IF Visible(a, Head(acand[a])).status = "created"
       THEN /\ aw' = [aw EXCEPT ![a][Head(acand[a])] = AssignedRow(Visible(a, Head(acand[a])), asel[a])]
            /\ apc' = [apc EXCEPT ![a] = "audit"]
            /\ UNCHANGED acand
       ELSE /\ ANextCandidate(a)
            /\ UNCHANGED aw
  /\ UNCHANGED <<ascan, aaud, astats, tasks, audit, operators, olock, uvars, aevents>>
  /\ UNCHANGED <<gvars, rvars, wvars, mvars, xvars>>

\* the events are published inside the loop, before COMMIT
AInsertAuditAndPublish(a) ==
  /\ apc[a] = "audit"
  /\ aaud' = [aaud EXCEPT ![a] = Append(@,
       [taskId |-> Head(acand[a]), fromStatus |-> "created", toStatus |-> "assigned",
        taskVersion |-> aw[a][Head(acand[a])].version, changedBy |-> None])]
  /\ astats' = [astats EXCEPT ![a].assignedTasks = @ + 1]
  /\ channel' = IF PublishSucceeds
                  THEN Published(TaskEvent(TASK_ASSIGNED, Head(acand[a]), aw[a][Head(acand[a])]))
                  ELSE channel
  /\ ANextCandidate(a)
  /\ UNCHANGED <<ascan, asel, aw, aevents, dbvars, uvars>>
  /\ UNCHANGED <<gvars, busvars, wvars, mvars, xvars>>

\* assignTaskToOperator: INSERT INTO task_status_audit_logs (created -> assigned)
AInsertAudit(a) ==
  /\ apc[a] = "audit"
  /\ aaud' = [aaud EXCEPT ![a] = Append(@,
       [taskId |-> Head(acand[a]), fromStatus |-> "created", toStatus |-> "assigned",
        taskVersion |-> aw[a][Head(acand[a])].version, changedBy |-> None])]
  /\ astats' = [astats EXCEPT ![a].assignedTasks = @ + 1]
  /\ aevents' = [aevents EXCEPT ![a] =
       @ \o <<TaskEvent(TASK_ASSIGNED, Head(acand[a]), aw[a][Head(acand[a])]),
              TaskEvent(TASK_UPDATED, Head(acand[a]), aw[a][Head(acand[a])])>>]
  /\ ANextCandidate(a)
  /\ UNCHANGED <<ascan, asel, aw, dbvars, uvars>>
  /\ UNCHANGED <<gvars, rvars, wvars, mvars, xvars>>

\* the audit rows of task t among the pending rows of a cycle, taskId column dropped
AuditRowsOf(rows, t) ==
  LET mine == SelectSeq(rows, LAMBDA r : r.taskId = t)
  IN [i \in 1..Len(mine) |->
        [fromStatus |-> mine[i].fromStatus, toStatus |-> mine[i].toStatus,
         taskVersion |-> mine[i].taskVersion, changedBy |-> mine[i].changedBy]]

\* COMMIT
ACommit(a) ==
  /\ apc[a] = "commit"
  /\ tasks' = [t \in DOMAIN tasks |-> Visible(a, t)]
  /\ audit' = [t \in DOMAIN audit |-> audit[t] \o AuditRowsOf(aaud[a], t)]
  /\ tlock' = ReleaseLocks(tlock, a)
  /\ olock' = ReleaseLocks(olock, a)
  /\ aw' = [aw EXCEPT ![a] = [t \in DOMAIN tasks |-> NoRow]]
  /\ aaud' = [aaud EXCEPT ![a] = <<>>]
  /\ apc' = [apc EXCEPT ![a] = IF aevents[a] = <<>> THEN "done" ELSE "publish"]
  /\ UNCHANGED <<acand, ascan, asel, astats, operators, uvars, aevents>>
  /\ UNCHANGED <<gvars, rvars, wvars, mvars, xvars>>

\* the publish loop without its try block: a publish that throws fails the cycle
APublishThrows(a) ==
  /\ apc[a] = "publish"
  /\ IF PublishSucceeds
       THEN /\ channel' = Published(Head(aevents[a]))
            /\ aevents' = [aevents EXCEPT ![a] = Tail(@)]
            /\ apc' = [apc EXCEPT ![a] = IF Len(aevents[a]) > 1 THEN "publish" ELSE "done"]
            /\ UNCHANGED astats
       ELSE /\ astats' = [astats EXCEPT ![a] = NoStats]
            /\ aevents' = [aevents EXCEPT ![a] = <<>>]
            /\ apc' = [apc EXCEPT ![a] = "failed"]
            /\ UNCHANGED channel
  /\ UNCHANGED <<acand, ascan, asel, aw, aaud, dbvars, uvars>>
  /\ UNCHANGED <<gvars, busvars, wvars, mvars, xvars>>

\* the publish loop after COMMIT: each event in its own try block; a publish
\* that throws is counted and the loop goes on.  After the last event the
\* stats are returned; finally: client.release
APublish(a) ==
  /\ apc[a] = "publish"
  /\ IF PublishSucceeds
       THEN /\ channel' = Published(Head(aevents[a]))
            /\ UNCHANGED astats
       ELSE /\ astats' = [astats EXCEPT ![a].realtimePublishFailures = @ + 1]
            /\ UNCHANGED channel
  /\ aevents' = [aevents EXCEPT ![a] = Tail(@)]
  /\ apc' = [apc EXCEPT ![a] = IF Len(aevents[a]) > 1 THEN "publish" ELSE "done"]
  /\ UNCHANGED <<acand, ascan, asel, aw, aaud, dbvars, uvars>>
  /\ UNCHANGED <<gvars, busvars, wvars, mvars, xvars>>

\* a statement of the cycle fails (connection lost, statement timeout): the
\* error is thrown inside the try block
AStatementFails(a) ==
  /\ apc[a] \in {"lock", "scan", "pick", "assign", "audit", "commit"}
  /\ apc' = [apc EXCEPT ![a] = "rollback"]
  /\ UNCHANGED <<acand, ascan, asel, aw, aaud, astats, dbvars, uvars, aevents>>
  /\ UNCHANGED <<gvars, rvars, wvars, mvars, xvars>>

\* catch: ROLLBACK, the error is rethrown (no stats are returned);
\* finally: client.release
ARollback(a) ==
  /\ apc[a] = "rollback"
  /\ tlock' = ReleaseLocks(tlock, a)
  /\ olock' = ReleaseLocks(olock, a)
  /\ aw' = [aw EXCEPT ![a] = [t \in DOMAIN tasks |-> NoRow]]
  /\ aaud' = [aaud EXCEPT ![a] = <<>>]
  /\ acand' = [acand EXCEPT ![a] = <<>>]
  /\ ascan' = [ascan EXCEPT ![a] = <<>>]
  /\ asel' = [asel EXCEPT ![a] = None]
  /\ astats' = [astats EXCEPT ![a] = NoStats]
  /\ aevents' = [aevents EXCEPT ![a] = <<>>]
  /\ apc' = [apc EXCEPT ![a] = "failed"]
  /\ UNCHANGED <<tasks, audit, operators, uvars>>
  /\ UNCHANGED <<gvars, rvars, wvars, mvars, xvars>>

----------------------------------------------------------------------------
\* The lifecycle specification

\* the arguments callers pass to updateTaskStatus
ExpectedVersions == {NoVersion} \cup (1..MaxVersion)

ChangedByOperatorIds == {"o1", GhostOperator}

Next ==
  \/ \E p \in DOMAIN upc, taskId \in DOMAIN tasks \cup {MissingTask},
        changedByOperatorId \in ChangedByOperatorIds :
       UBegin(p, taskId, changedByOperatorId)
  \/ \E p \in DOMAIN upc, newStatus \in TASK_STATUSES, expectedVersion \in ExpectedVersions :
       USelectForUpdate(p, newStatus, expectedVersion)
  \/ \E p \in DOMAIN upc : UUpdate(p)
  \/ \E p \in DOMAIN upc : UInsertAudit(p)
  \/ \E p \in DOMAIN upc : UCommit(p)
  \/ \E p \in DOMAIN upc : UPublish(p)
  \/ \E p \in DOMAIN upc : URollback(p)
  \/ \E a \in DOMAIN apc : ABegin(a)
  \/ \E a \in DOMAIN apc : ALockCandidates(a)
  \/ \E a \in DOMAIN apc : AFindScan(a)
  \/ \E a \in DOMAIN apc : AFindLock(a)
  \/ \E a \in DOMAIN apc : AAssignUpdate(a)
  \/ \E a \in DOMAIN apc : AInsertAudit(a)
  \/ \E a \in DOMAIN apc : ACommit(a)
  \/ \E a \in DOMAIN apc : APublish(a)
  \/ \E a \in DOMAIN apc : AStatementFails(a)
  \/ \E a \in DOMAIN apc : ARollback(a)

Spec == Init /\ [][Next]_vars

SpecAssign == InitAssign /\ [][Next]_vars

\* one assignment worker alone on three tasks and two operators.  o1 is an
\* available operator of zone zA; o2 varies in status, zone and workload.
\* Task 3 is created, or is the active task of o2 from an earlier cycle.
InitCycleOperators ==
  {[o \in {"o1", "o2"} |->
      IF o = "o1" THEN InitOperators({"o1"})["o1"]
      ELSE [InitOperators({"o2"})["o2"] EXCEPT !.status = st, !.zones = {z}, !.workload = wl]] :
     st \in {"available", "busy", "offline"}, z \in Zones, wl \in {0, 1}}

InitCycle ==
  /\ events = <<>>
  /\ operators \in InitCycleOperators
  /\ \E f \in InitTasks({1, 2, 3}), held \in BOOLEAN :
       /\ held => f[3].zone \in operators["o2"].zones
       /\ tasks = IF held THEN [f EXCEPT ![3] = AssignedRow(f[3], "o2")] ELSE f
       /\ audit = [t \in {1, 2, 3} |->
                     IF held /\ t = 3
                       THEN <<[fromStatus |-> "created", toStatus |-> "assigned",
                               taskVersion |-> 2, changedBy |-> None]>>
                       ELSE <<>>]
  /\ tlock = [t \in {1, 2, 3} |-> None]
  /\ olock = [o \in {"o1", "o2"} |-> None]
  /\ InitProcs({}, {"a1"}, {1, 2, 3})
  /\ InitWorkers({}) /\ InitNoCalls
  /\ InitBus(FALSE)
  /\ InitNoWorkerProcesses

NextCycle ==
  \/ \E a \in DOMAIN apc : ABegin(a)
  \/ \E a \in DOMAIN apc : ALockCandidates(a)
  \/ \E a \in DOMAIN apc : AFindScan(a)
  \/ \E a \in DOMAIN apc : AFindLock(a)
  \/ \E a \in DOMAIN apc : AAssignUpdate(a)
  \/ \E a \in DOMAIN apc : AInsertAudit(a)
  \/ \E a \in DOMAIN apc : ACommit(a)
  \/ \E a \in DOMAIN apc : APublish(a)
  \/ \E a \in DOMAIN apc : AStatementFails(a)
  \/ \E a \in DOMAIN apc : ARollback(a)

SpecCycle == InitCycle /\ [][NextCycle]_vars

\* cycles whose statements all succeed, one after the other for ever
NextCycleRuns ==
  \/ \E a \in DOMAIN apc : ABegin(a)
  \/ \E a \in DOMAIN apc : ALockCandidates(a)
  \/ \E a \in DOMAIN apc : AFindScan(a)
  \/ \E a \in DOMAIN apc : AFindLock(a)
  \/ \E a \in DOMAIN apc : AAssignUpdate(a)
  \/ \E a \in DOMAIN apc : AInsertAudit(a)
  \/ \E a \in DOMAIN apc : ACommit(a)
  \/ \E a \in DOMAIN apc : APublish(a)

SpecCycleFair == InitCycle /\ [][NextCycleRuns]_vars /\ WF_vars(NextCycleRuns)

----------------------------------------------------------------------------
\* The socket server: rooms, broadcastRealtimeEvent, initializeSocketServer,
\* closeSocketServer, and the message handler of eventBus.js

MANAGER_ROOM == "manager"

getOperatorRoomName(operatorId) == "operator:" \o operatorId

\* a value JavaScript's || passes over: a missing key, null, the empty string
Falsy(value) == value \in {Absent, None, ""}

\* only the operatorId key is looked at
resolveOperatorIdFromOperatorIdOnly(payload) ==
  IF ~Falsy(payload.operatorId) THEN payload.operatorId ELSE None

\* payload?.operatorId || payload?.operator_id || payload?.assignedOperatorId || null
resolveOperatorIdFromPayload(payload) ==
  IF ~Falsy(payload.operatorId) THEN payload.operatorId
  ELSE IF ~Falsy(payload.operator_id) THEN payload.operator_id
  ELSE IF ~Falsy(payload.assignedOperatorId) THEN payload.assignedOperatorId
  ELSE None

\* broadcastRealtimeEvent: what io.to(room).emit(type, payload) is called with
broadcastRealtimeEvent(event) ==
  IF ~io THEN {}
  ELSE {[room |-> MANAGER_ROOM, event |-> event]} \cup
       IF resolveOperatorIdFromPayload(event.payload) # None
         THEN {[room |-> getOperatorRoomName(resolveOperatorIdFromPayload(event.payload)),
                event |-> event]}
         ELSE {}

----------------------------------------------------------------------------
\* realtime/socketAuthMiddleware.js: the handshake of a socket
\*
\* A JavaScript value is a record tagged with its type.  A string is the
\* sequence of its words and blanks: " " is one whitespace character, every
\* other element is a word without whitespace.

jsUndefined == [t |-> "undefined"]
jsNull == [t |-> "null"]
jsString(s) == [t |-> "string", s |-> s]
jsNumber(n) == [t |-> "number", n |-> n]
jsArray(a) == [t |-> "array", a |-> a]

\* what if (value) and value || other take for true
Truthy(value) ==
  CASE value.t = "string" -> value.s # <<>>
    [] value.t = "number" -> value.n # 0
    [] value.t = "array" -> TRUE
    [] OTHER -> FALSE

RECURSIVE trimStart(_)
trimStart(s) == IF s # <<>> /\ Head(s) = " " THEN trimStart(Tail(s)) ELSE s

RECURSIVE trimEnd(_)
trimEnd(s) == IF s # <<>> /\ s[Len(s)] = " " THEN trimEnd(SubSeq(s, 1, Len(s) - 1)) ELSE s

trim(s) == trimEnd(trimStart(s))

\* the words of the model that are not in lower case
LowerCaseOf ==
  [Bearer |-> "bearer", BEARER |-> "bearer", Admin |-> "admin", SUPERVISOR |-> "supervisor"]

toLowerCase(s) == [i \in DOMAIN s |-> IF s[i] \in DOMAIN LowerCaseOf THEN LowerCaseOf[s[i]] ELSE s[i]]

startsWith(s, prefix) == Len(s) >= Len(prefix) /\ SubSeq(s, 1, Len(prefix)) = prefix

RECURSIVE Text(_)
\* the string as one value
Text(s) == IF s = <<>> THEN "" ELSE Head(s) \o Text(Tail(s))

extractBearerToken(value) ==
  IF value.t # "string" THEN jsNull
  ELSE LET trimmed == trim(value.s) IN
    IF trimmed = <<>> THEN jsNull
    ELSE IF startsWith(toLowerCase(trimmed), <<"bearer", " ">>)
      THEN LET rest == trim(SubSeq(trimmed, 3, Len(trimmed))) IN
             IF rest = <<>> THEN jsNull ELSE jsString(rest)
      ELSE jsString(trimmed)

\* handshake.auth.token, handshake.headers.authorization, handshake.query.token
extractTokenFromSocket(handshake) ==
  IF Truthy(extractBearerToken(handshake.auth)) THEN extractBearerToken(handshake.auth)
  ELSE IF Truthy(extractBearerToken(handshake.authorization))
    THEN extractBearerToken(handshake.authorization)
  ELSE IF Truthy(extractBearerToken(handshake.query)) THEN extractBearerToken(handshake.query)
  ELSE jsNull

\* a token payload without claims
NoClaims ==
  [role |-> jsUndefined, roles |-> jsUndefined, scope |-> jsUndefined,
   operatorId |-> jsUndefined, operator_id |-> jsUndefined, sub |-> jsUndefined]

\* the tokens signed with the secret and not expired, with their payloads;
\* jwt.verify throws for every other token
SignedTokens ==
  [jwtAdmin |-> [NoClaims EXCEPT !.role = jsString(<<"admin">>), !.sub = jsString(<<"u1">>)],
   jwtAdminCase |-> [NoClaims EXCEPT !.role = jsString(<<" ", "Admin", " ">>)],
   jwtRoles |-> [NoClaims EXCEPT !.roles = jsArray(<<jsNumber(7), jsString(<<"SUPERVISOR">>)>>)],
   jwtScope |-> [NoClaims EXCEPT !.scope = jsString(<<"read", " ", " ", "manager">>)],
   jwtWarehouse |-> [NoClaims EXCEPT !.role = jsString(<<"warehouse_manager">>),
                                     !.operatorId = jsString(<<"o2">>), !.sub = jsString(<<"u2">>)],
   jwtOperator |-> [NoClaims EXCEPT !.role = jsString(<<"operator">>),
                                    !.operatorId = jsString(<<"o1">>), !.sub = jsString(<<"u3">>)],
   jwtOperatorPadded |-> [NoClaims EXCEPT !.operatorId = jsString(<<" ", "o1", " ">>)],
   jwtOperatorSnake |-> [NoClaims EXCEPT !.operatorId = jsString(<<" ">>),
                                         !.operator_id = jsString(<<"o2">>)],
   jwtOperatorBoth |-> [NoClaims EXCEPT !.roles = jsArray(<<jsString(<<"picker">>)>>),
                                        !.operatorId = jsString(<<"o1">>),
                                        !.operator_id = jsString(<<"o2">>)],
   jwtBlankOperator |-> [NoClaims EXCEPT !.role = jsString(<<"operator">>),
                                         !.operatorId = jsString(<<" ", " ">>)],
   jwtEmptyOperator |-> [NoClaims EXCEPT !.operatorId = jsString(<<>>)],
   jwtNumericOperator |-> [NoClaims EXCEPT !.operatorId = jsNumber(7)],
   jwtRoleOnly |-> [NoClaims EXCEPT !.role = jsString(<<"operator">>), !.sub = jsString(<<"u4">>)],
   jwtManagerWord |-> [NoClaims EXCEPT !.scope = jsString(<<"manager_read">>)],
   jwtNothing |-> NoClaims]

\* tokens jwt.verify throws for: expired, signed with another secret, not a JWT
RejectedTokens == {"jwtExpired", "jwtForged", "garbage", "Bearer"}

\* jwt.verify(token, jwtSecret) returns a payload
TokenVerifies(token) == Len(token) = 1 /\ token[1] \in DOMAIN SignedTokens

normalizeRoles(payload) ==
  (IF payload.role.t = "string" /\ trim(payload.role.s) # <<>>
     THEN {toLowerCase(trim(payload.role.s))} ELSE {})
  \cup
  (IF payload.roles.t = "array"
     THEN {toLowerCase(trim(payload.roles.a[i].s)) :
             i \in {j \in DOMAIN payload.roles.a :
                      payload.roles.a[j].t = "string" /\ trim(payload.roles.a[j].s) # <<>>}}
     ELSE {})
  \cup
  (IF payload.scope.t = "string"
     THEN {toLowerCase(<<payload.scope.s[i]>>) :
             i \in {j \in DOMAIN payload.scope.s : payload.scope.s[j] # " "}}
     ELSE {})

MANAGER_ROLES == {<<"admin">>, <<"warehouse_manager">>, <<"supervisor">>, <<"manager">>}

\* payload.operatorId, or payload.operator_id, trimmed; null when neither is
\* a string with something else than blanks in it
OperatorIdClaim(payload) ==
  IF payload.operatorId.t = "string" /\ trim(payload.operatorId.s) # <<>>
    THEN jsString(trim(payload.operatorId.s))
  ELSE IF payload.operator_id.t = "string" /\ trim(payload.operator_id.s) # <<>>
    THEN jsString(trim(payload.operator_id.s))
  ELSE jsNull

NoAuthContext == [operatorId |-> jsNull, roles |-> {}, isManager |-> FALSE, userId |-> None]

Unauthorized == [error |-> "UNAUTHORIZED", authContext |-> NoAuthContext]

\* every verified token is let in
socketAuthMiddlewareAdmitsAll(handshake) ==
  LET token == extractTokenFromSocket(handshake) IN
    IF ~Truthy(token) THEN Unauthorized
    ELSE IF ~jwtSecret THEN Unauthorized
    ELSE IF ~TokenVerifies(token.s) THEN Unauthorized
    ELSE LET payload == SignedTokens[token.s[1]] IN
      [error |-> None,
       authContext |-> [operatorId |-> OperatorIdClaim(payload),
                        roles |-> normalizeRoles(payload),
                        isManager |-> normalizeRoles(payload) \cap MANAGER_ROLES # {},
                        userId |-> IF Truthy(payload.sub) THEN Text(payload.sub.s) ELSE None]]

\* the outcome of the middleware: next(error) or next() with socket.authContext
socketAuthMiddleware(handshake) ==
  LET token == extractTokenFromSocket(handshake) IN
    IF ~Truthy(token) THEN Unauthorized
    ELSE IF ~jwtSecret THEN Unauthorized
    ELSE IF ~TokenVerifies(token.s) THEN Unauthorized
    ELSE LET payload == SignedTokens[token.s[1]]
             roles == normalizeRoles(payload)
             isManager == roles \cap MANAGER_ROLES # {}
             operatorId == OperatorIdClaim(payload)
         IN IF ~isManager /\ ~Truthy(operatorId) THEN Unauthorized
            ELSE [error |-> None,
                  authContext |-> [operatorId |-> operatorId, roles |-> roles,
                                   isManager |-> isManager,
                                   userId |-> IF Truthy(payload.sub) THEN Text(payload.sub.s)
                                              ELSE None]]

USER_PRESENCE_UPDATED == "USER_PRESENCE_UPDATED"

NoHandshake == [auth |-> jsUndefined, authorization |-> jsUndefined, query |-> jsUndefined]

\* a socket that is not connected
NoSocket ==
  [state |-> "closed", handshake |-> NoHandshake, error |-> None, authContext |-> NoAuthContext,
   rooms |-> {}, tracked |-> FALSE, received |-> {}]

\* connectedUsers.keys() when the registry is users
getOnlineUserIds(users) == DOMAIN users

\* the connection handler: connectedUsers.set(userId, new Set()) when the user
\* has no entry, then connectedUsers.get(userId).add(socket.id)
addSocket(users, userId, id) ==
  LET known == IF userId \in DOMAIN users THEN users
               ELSE [u \in DOMAIN users \cup {userId} |->
                       IF u = userId THEN {} ELSE users[u]]
  IN [known EXCEPT ![userId] = @ \cup {id}]

\* the user's entry is deleted at any disconnect of one of the user's sockets
deleteSocketAndUser(users, userId, id) ==
  [u \in DOMAIN users \ {userId} |-> users[u]]

\* the disconnect handler: sockets.delete(socket.id) when the user has an
\* entry, and connectedUsers.delete(userId) when the set is empty then
deleteSocket(users, userId, id) ==
  IF userId \notin DOMAIN users THEN users
  ELSE LET sockets_ == users[userId] \ {id}
       IN IF sockets_ = {} THEN [u \in DOMAIN users \ {userId} |-> users[u]]
          ELSE [users EXCEPT ![userId] = sockets_]

\* broadcastPresence: what io.to(MANAGER_ROOM).emit is called with
broadcastPresence(users) ==
  IF ~io THEN {}
  ELSE {[room |-> MANAGER_ROOM,
         event |-> [type |-> USER_PRESENCE_UPDATED,
                    payload |-> [onlineUserIds |-> getOnlineUserIds(users)]]]}

\* io.to(room).emit: every connected socket of the room receives the event
Receive(socks, out) ==
  [s \in DOMAIN socks |->
     IF socks[s].state = "connected"
       THEN [socks[s] EXCEPT !.received = @ \cup {x.event : x \in {y \in out : y.room \in socks[s].rooms}}]
       ELSE socks[s]]

\* every socket joins the manager room
RoomsOfEverybodyManager(authContext) ==
  {MANAGER_ROOM} \cup
  (IF Truthy(authContext.operatorId)
     THEN {getOperatorRoomName(Text(authContext.operatorId.s))} ELSE {})

\* io.on("connection"): the rooms the socket joins
RoomsOf(authContext) ==
  (IF authContext.isManager THEN {MANAGER_ROOM} ELSE {}) \cup
  (IF Truthy(authContext.operatorId)
     THEN {getOperatorRoomName(Text(authContext.operatorId.s))} ELSE {})

\* a client connects: io.use(socketAuthMiddleware), then the connection
\* handler: rooms, connectedUsers, broadcastPresence
SConnect(s, handshake) ==
  /\ io
  /\ sockets[s].state = "closed"
  /\ LET result == socketAuthMiddleware(handshake) IN
       IF result.error # None
         THEN /\ sockets' = [sockets EXCEPT ![s] =
                   [NoSocket EXCEPT !.state = "rejected", !.handshake = handshake,
                                    !.error = result.error]]
              /\ UNCHANGED <<emitted, connectedUsers>>
         ELSE LET joined == [sockets EXCEPT ![s] =
                    [NoSocket EXCEPT !.state = "connected", !.handshake = handshake,
                                     !.authContext = result.authContext,
                                     !.rooms = RoomsOf(result.authContext),
                                     !.tracked = result.authContext.userId # None]]
                  userId == result.authContext.userId
                  users == IF userId # None THEN addSocket(connectedUsers, userId, s)
                           ELSE connectedUsers
                  out == IF userId # None THEN broadcastPresence(users) ELSE {}
              IN /\ sockets' = Receive(joined, out)
                 /\ connectedUsers' = users
                 /\ emitted' = emitted \cup out
  /\ UNCHANGED <<channel, isSubscribed, redisUp, io, subscribers, invoked, jwtSecret, spc>>
  /\ UNCHANGED <<dbvars, uvars, avars, gvars, wvars, mvars, xvars>>

\* next(error): the connection of a rejected socket is closed
SReject(s) ==
  /\ sockets[s].state = "rejected"
  /\ sockets' = [sockets EXCEPT ![s] = NoSocket]
  /\ UNCHANGED <<channel, isSubscribed, redisUp, emitted, io, subscribers, invoked, jwtSecret, connectedUsers, spc>>
  /\ UNCHANGED <<dbvars, uvars, avars, gvars, wvars, mvars, xvars>>

\* socket.on("disconnect"): the socket has left its rooms; connectedUsers, broadcastPresence
SDisconnect(s) ==
  /\ sockets[s].state = "connected"
  /\ LET left == [sockets EXCEPT ![s] = NoSocket]
         userId == sockets[s].authContext.userId
         users == IF userId # None THEN deleteSocket(connectedUsers, userId, s)
                  ELSE connectedUsers
         out == IF userId # None THEN broadcastPresence(users) ELSE {}
     IN /\ sockets' = Receive(left, out)
        /\ connectedUsers' = users
        /\ emitted' = emitted \cup out
  /\ UNCHANGED <<channel, isSubscribed, redisUp, io, subscribers, invoked, jwtSecret, spc>>
  /\ UNCHANGED <<dbvars, uvars, avars, gvars, wvars, mvars, xvars>>

----------------------------------------------------------------------------
\* realtime/eventBus.js: the subscriber's message listener

RECURSIVE dispatchWithoutCatch(_, _)
RECURSIVE dispatch(_, _)

\* the loop ends at the first handler that throws
dispatchWithoutCatch(handlers, throwing) ==
  IF handlers = <<>> THEN {}
  ELSE IF Head(handlers) \in throwing THEN {Head(handlers)}
  ELSE {Head(handlers)} \cup dispatchWithoutCatch(Tail(handlers), throwing)

\* for (const handler of subscribers) { try { handler(parsedMessage) } catch { log } }:
\* the handlers called, when the handlers of throwing throw
dispatch(handlers, throwing) ==
  IF handlers = <<>> THEN {}
  ELSE {Head(handlers)} \cup dispatch(Tail(handlers), throwing)

\* the handlers of the subscribers set
Subscribers == {subscribers[i] : i \in DOMAIN subscribers}

\* subscriber.on("message"): the parsed message is handed to every handler
\* of the subscribers set; the handlers of throwing throw.  The broadcast
\* handler catches what broadcastRealtimeEvent throws and never throws itself.
Deliver(throwing) ==
  /\ channel # <<>>
  /\ channel' = Tail(channel)
  /\ LET called == dispatch(subscribers, throwing)
         out == IF broadcastHandler \in called THEN broadcastRealtimeEvent(Head(channel)) ELSE {}
     IN /\ invoked' = invoked \cup
             {[handler |-> h, event |-> Head(channel), threw |-> h \in throwing] : h \in called}
        /\ emitted' = emitted \cup out
        /\ sockets' = Receive(sockets, out)
  /\ UNCHANGED <<isSubscribed, redisUp, io, subscribers, jwtSecret, connectedUsers, spc>>
  /\ UNCHANGED <<dbvars, uvars, avars, gvars, wvars, mvars, xvars>>

\* another module calls subscribeRealtimeEvents(h) while the subscriber is
\* subscribed: subscribers.add(h)
Subscribe(h) ==
  /\ isSubscribed
  /\ h \notin Subscribers
  /\ subscribers' = Append(subscribers, h)
  /\ UNCHANGED <<channel, isSubscribed, redisUp, emitted, io, invoked, sockets, jwtSecret, connectedUsers, spc>>
  /\ UNCHANGED <<dbvars, uvars, avars, gvars, wvars, mvars, xvars>>

\* the function subscribeRealtimeEvents(h) returned: subscribers.delete(h)
Unsubscribe(h) ==
  /\ h \in Subscribers
  /\ h # broadcastHandler
  /\ subscribers' = SelectSeq(subscribers, LAMBDA x : x # h)
  /\ UNCHANGED <<channel, isSubscribed, redisUp, emitted, io, invoked, sockets, jwtSecret, connectedUsers, spc>>
  /\ UNCHANGED <<dbvars, uvars, avars, gvars, wvars, mvars, xvars>>

\* initializeSocketServer up to its await: io = new Server(...), and
\* subscribeRealtimeEvents has added the handler to the subscribers set
SInitialize ==
  /\ spc = "down"
  /\ ~io
  /\ io' = TRUE
  /\ subscribers' = IF handler THEN subscribers ELSE Append(subscribers, broadcastHandler)
  /\ spc' = "subscribing"
  /\ UNCHANGED <<channel, isSubscribed, redisUp, emitted, invoked, sockets, jwtSecret, connectedUsers>>
  /\ UNCHANGED <<dbvars, uvars, avars, gvars, wvars, mvars, xvars>>

\* subscribeRealtimeEvents: SUBSCRIBE has been acknowledged, isSubscribed = true
SSubscribed ==
  /\ spc = "subscribing"
  /\ isSubscribed' = TRUE
  /\ spc' = "up"
  /\ UNCHANGED <<channel, redisUp, emitted, io, subscribers, invoked, sockets, jwtSecret, connectedUsers>>
  /\ UNCHANGED <<dbvars, uvars, avars, gvars, wvars, mvars, xvars>>

\* closeSocketServer: unsubscribe() takes the handler out of the subscribers set
SCloseUnsubscribe ==
  /\ spc = "up"
  /\ subscribers' = SelectSeq(subscribers, LAMBDA x : x # broadcastHandler)
  /\ spc' = "closingBus"
  /\ UNCHANGED <<channel, isSubscribed, redisUp, emitted, io, invoked, sockets, jwtSecret, connectedUsers>>
  /\ UNCHANGED <<dbvars, uvars, avars, gvars, wvars, mvars, xvars>>

\* closeRealtimeEventBus: UNSUBSCRIBE and quit; what was not yet handled is lost
SCloseBus ==
  /\ spc = "closingBus"
  /\ subscribers' = <<>>
  /\ isSubscribed' = FALSE
  /\ channel' = <<>>
  /\ spc' = "closingIo"
  /\ UNCHANGED <<redisUp, emitted, io, invoked, sockets, jwtSecret, connectedUsers>>
  /\ UNCHANGED <<dbvars, uvars, avars, gvars, wvars, mvars, xvars>>

\* closeSocketServer: io.close(), io = null
SCloseIo ==
  /\ spc = "closingIo"
  /\ io' = FALSE
  /\ sockets' = [s \in DOMAIN sockets |-> NoSocket]
  /\ emitted' = emitted \cup
       (IF \E s \in DOMAIN sockets : sockets[s].state = "connected" /\ sockets[s].authContext.userId # None
          THEN broadcastPresence(NoUsers)
          ELSE {})
  /\ connectedUsers' = NoUsers
  /\ spc' = "down"
  /\ UNCHANGED <<channel, isSubscribed, redisUp, subscribers, invoked, jwtSecret>>
  /\ UNCHANGED <<dbvars, uvars, avars, gvars, wvars, mvars, xvars>>

\* the pub/sub server goes down or comes back
RedisFlips ==
  /\ redisUp' = ~redisUp
  /\ UNCHANGED <<channel, isSubscribed, emitted, io, subscribers, invoked, sockets, jwtSecret, connectedUsers, spc>>
  /\ UNCHANGED <<dbvars, uvars, avars, gvars, wvars, mvars, xvars>>

\* The realtime specification: one API caller and one assignment worker on
\* one task, a socket server that is up and subscribed, and a pub/sub
\* server that can be down at any publish
InitRealtime ==
  /\ InitDb({1}, {"o1"}) /\ InitProcs({"u1"}, {"a1"}, {1}) /\ InitWorkers({}) /\ InitNoCalls /\ InitBus(TRUE)
  /\ InitNoWorkerProcesses

NextRealtime ==
  \/ \E p \in DOMAIN upc, taskId \in DOMAIN tasks \cup {MissingTask},
        changedByOperatorId \in ChangedByOperatorIds :
       UBegin(p, taskId, changedByOperatorId)
  \/ \E p \in DOMAIN upc, newStatus \in TASK_STATUSES, expectedVersion \in ExpectedVersions :
       USelectForUpdate(p, newStatus, expectedVersion)
  \/ \E p \in DOMAIN upc : UUpdate(p)
  \/ \E p \in DOMAIN upc : UInsertAudit(p)
  \/ \E p \in DOMAIN upc : UCommit(p)
  \/ \E p \in DOMAIN upc : UPublish(p)
  \/ \E p \in DOMAIN upc : URollback(p)
  \/ \E a \in DOMAIN apc : ABegin(a)
  \/ \E a \in DOMAIN apc : ALockCandidates(a)
  \/ \E a \in DOMAIN apc : AFindScan(a)
  \/ \E a \in DOMAIN apc : AFindLock(a)
  \/ \E a \in DOMAIN apc : AAssignUpdate(a)
  \/ \E a \in DOMAIN apc : AInsertAudit(a)
  \/ \E a \in DOMAIN apc : ACommit(a)
  \/ \E a \in DOMAIN apc : APublish(a)
  \/ \E a \in DOMAIN apc : AStatementFails(a)
  \/ \E a \in DOMAIN apc : ARollback(a)
  \/ RedisFlips
  \/ \E throwing \in SUBSET (Subscribers \ {broadcastHandler}) : Deliver(throwing)

SpecRealtime == InitRealtime /\ [][NextRealtime]_vars

\* the same processes, with database errors inside updateTaskStatus
NextFailures ==
  \/ NextRealtime
  \/ \E p \in DOMAIN upc : UStatementFails(p)

SpecFailures == InitRealtime /\ [][NextFailures]_vars

\* The broadcast specification: the socket server alone, with messages of
\* any publisher of the deployment on the channel.  Each of the three
\* operator keys of a payload is missing, null, empty or an operator id.
MaxChannel == 1

OperatorKeyValues == {Absent, None, "", "o1", "o2"}

ChannelEvents ==
  {[type |-> TASK_UPDATED,
    payload |-> [taskId |-> 1, status |-> "assigned", version |-> 2,
                 operatorId |-> a, operator_id |-> b, assignedOperatorId |-> c]] :
     a \in OperatorKeyValues, b \in OperatorKeyValues, c \in OperatorKeyValues}

ChannelContents ==
  UNION {[1..n -> ChannelEvents] : n \in 1..MaxChannel}

InitBroadcast ==
  /\ InitDb({}, {}) /\ InitProcs({}, {}, {}) /\ InitWorkers({}) /\ InitNoCalls
  /\ InitNoWorkerProcesses
  /\ channel \in ChannelContents
  /\ isSubscribed = TRUE
  /\ redisUp = TRUE
  /\ emitted = {}
  /\ io = TRUE
  /\ subscribers = <<broadcastHandler>>
  /\ invoked = {}
  /\ sockets = [s \in {} |-> None]
  /\ connectedUsers = NoUsers
  /\ jwtSecret = TRUE
  /\ spc = "up"

NextBroadcast ==
  \/ \E throwing \in SUBSET (Subscribers \ {broadcastHandler}) : Deliver(throwing)
  \/ SInitialize
  \/ SSubscribed
  \/ SCloseUnsubscribe
  \/ SCloseBus
  \/ SCloseIo

SpecBroadcast == InitBroadcast /\ [][NextBroadcast]_vars

\* The handshake specification: one client connects with any handshake, to
\* a socket server with or without JWT_SECRET in its environment.

\* the words a token string can consist of
TokenWords == DOMAIN SignedTokens \cup RejectedTokens

\* a place of the handshake without a token in it
BlankValues == {jsUndefined, jsString(<<" ">>)}

\* what a place of the handshake can hold: no string, an empty or blank
\* string, a token, a token after "Bearer " in any case and with blanks around
TokenValues ==
  {jsUndefined, jsNull, jsNumber(7), jsString(<<>>), jsString(<<" ">>)} \cup
  {jsString(<<w>>) : w \in TokenWords} \cup
  {jsString(<<"Bearer", " ", w>>) : w \in TokenWords} \cup
  {jsString(<<" ", "BEARER", " ", " ", w, " ">>) : w \in TokenWords}

\* tokens in more than one place
PrecedenceValues ==
  {jsString(<<"jwtAdmin">>), jsString(<<"Bearer", " ", "jwtOperator">>), jsString(<<"jwtExpired">>)}

Handshakes ==
  {[NoHandshake EXCEPT !.auth = v] : v \in TokenValues} \cup
  {[NoHandshake EXCEPT !.authorization = v] : v \in TokenValues} \cup
  {[auth |-> a, authorization |-> h, query |-> q] :
     a \in BlankValues, h \in BlankValues, q \in TokenValues} \cup
  {[auth |-> a, authorization |-> h, query |-> q] :
     a \in PrecedenceValues, h \in PrecedenceValues, q \in PrecedenceValues}

\* a socket server that is up with clients S, none of them connected
InitSocketServer(S) ==
  /\ isSubscribed = TRUE
  /\ redisUp = TRUE
  /\ emitted = {}
  /\ io = TRUE
  /\ subscribers = <<broadcastHandler>>
  /\ invoked = {}
  /\ sockets = [s \in S |-> NoSocket]
  /\ connectedUsers = NoUsers
  /\ jwtSecret \in BOOLEAN
  /\ spc = "up"

InitHandshake ==
  /\ InitDb({}, {}) /\ InitProcs({}, {}, {}) /\ InitWorkers({}) /\ InitNoCalls
  /\ InitNoWorkerProcesses
  /\ channel = <<>>
  /\ InitSocketServer({"s1"})

NextHandshake ==
  \/ \E s \in DOMAIN sockets, handshake \in Handshakes : SConnect(s, handshake)
  \/ \E s \in DOMAIN sockets : SReject(s)
  \/ \E s \in DOMAIN sockets : SDisconnect(s)

SpecHandshake == InitHandshake /\ [][NextHandshake]_vars

\* The socket specification: two clients that connect and disconnect while
\* the socket server broadcasts the task events of the channel.
MaxDelivered == 2

\* the tokens of the clients, sent in handshake.auth.token
SocketHandshakes ==
  {[NoHandshake EXCEPT !.auth = jsString(<<w>>)] :
     w \in {"jwtAdmin", "jwtOperatorPadded", "jwtOperatorSnake", "jwtRoleOnly"}}

SocketEvents ==
  {[type |-> TASK_UPDATED,
    payload |-> [taskId |-> 1, status |-> "assigned", version |-> 2,
                 operatorId |-> a, operator_id |-> Absent, assignedOperatorId |-> c]] :
     a \in {None, "o1"}, c \in {Absent, "o2"}}

InitSockets ==
  /\ InitDb({}, {}) /\ InitProcs({}, {}, {}) /\ InitWorkers({}) /\ InitNoCalls
  /\ InitNoWorkerProcesses
  /\ channel \in UNION {[1..n -> SocketEvents] : n \in 1..MaxDelivered}
  /\ InitSocketServer({"s1", "s2"})
  /\ jwtSecret

NextSockets ==
  \/ \E s \in DOMAIN sockets, handshake \in SocketHandshakes : SConnect(s, handshake)
  \/ \E s \in DOMAIN sockets : SReject(s)
  \/ \E s \in DOMAIN sockets : SDisconnect(s)
  \/ \E throwing \in SUBSET (Subscribers \ {broadcastHandler}) : Deliver(throwing)

SpecSockets == InitSockets /\ [][NextSockets]_vars

\* The presence specification: three clients connect and disconnect in any
\* order, each authenticated as one of two users (a manager, an operator) or
\* without user id, while the socket server may be closed and initialized
\* again.
PresenceHandshakes ==
  {[NoHandshake EXCEPT !.auth = jsString(<<w>>)] :
     w \in {"jwtAdmin", "jwtOperator", "jwtOperatorPadded"}}

InitPresence ==
  /\ InitDb({}, {}) /\ InitProcs({}, {}, {}) /\ InitWorkers({}) /\ InitNoCalls
  /\ InitNoWorkerProcesses
  /\ channel = <<>>
  /\ InitSocketServer({"s1", "s2", "s3"})
  /\ jwtSecret

NextPresence ==
  \/ \E s \in DOMAIN sockets, handshake \in PresenceHandshakes : SConnect(s, handshake)
  \/ \E s \in DOMAIN sockets : SDisconnect(s)
  \/ SInitialize
  \/ SSubscribed
  \/ SCloseUnsubscribe
  \/ SCloseBus
  \/ SCloseIo

SpecPresence == InitPresence /\ [][NextPresence]_vars

\* The dispatch specification: modules subscribe handlers to the event bus
\* and unsubscribe them while the subscriber dispatches the messages of the
\* channel; any handler but the broadcast handler can throw at any message.
MaxDispatched == 2

OtherHandlers == {"h1", "h2"}

DispatchEvents ==
  {[type |-> TASK_UPDATED,
    payload |-> [taskId |-> t, status |-> "assigned", version |-> 2,
                 operatorId |-> "o1", operator_id |-> Absent, assignedOperatorId |-> Absent]] :
     t \in {1, 2}}

InitDispatch ==
  /\ InitDb({}, {}) /\ InitProcs({}, {}, {}) /\ InitWorkers({}) /\ InitNoCalls
  /\ InitNoWorkerProcesses
  /\ channel \in UNION {[1..n -> DispatchEvents] : n \in 1..MaxDispatched}
  /\ InitSocketServer({})
  /\ jwtSecret

NextDispatch ==
  \/ \E h \in OtherHandlers : Subscribe(h)
  \/ \E h \in OtherHandlers : Unsubscribe(h)
  \/ \E throwing \in SUBSET (Subscribers \ {broadcastHandler}) : Deliver(throwing)

SpecDispatch == InitDispatch /\ [][NextDispatch]_vars

----------------------------------------------------------------------------
\* workers/taskAssignmentWorker.js

\* runAssignmentCycle past its isRunning test: isRunning = true and
\* assignTasks is called, which runs up to its await of pool.connect
WCallAssignTasks(w) ==
  /\ isRunning' = [isRunning EXCEPT ![w] = TRUE]
  /\ wpc' = [wpc EXCEPT ![w] = "awaiting"]
  /\ apc' = [apc EXCEPT ![w] = "idle"]

\* start: the first cycle is run at once, then setInterval
WStart(w) ==
  /\ wproc[w] = "starting"
  /\ WCallAssignTasks(w)
  /\ intervalHandle' = [intervalHandle EXCEPT ![w] = TRUE]
  /\ wlog' = [wlog EXCEPT ![w] = "started"]
  /\ wproc' = [wproc EXCEPT ![w] = "up"]
  /\ UNCHANGED <<acand, ascan, asel, aw, aaud, astats, aevents>>
  /\ UNCHANGED <<dbvars, uvars, gvars, rvars, mvars, xvars>>

\* a tick that calls assignTasks whether or not a cycle is running
WTickNoGuard(w) ==
  /\ intervalHandle[w]
  /\ wproc[w] = "up"
  /\ WCallAssignTasks(w)
  /\ UNCHANGED <<wlog, intervalHandle, wproc>>
  /\ UNCHANGED <<acand, ascan, asel, aw, aaud, astats, aevents>>
  /\ UNCHANGED <<dbvars, uvars, gvars, rvars, mvars, xvars>>

\* the interval fires: runAssignmentCycle.  With isRunning set the tick is
\* logged as skipped and returns
WTick(w) ==
  /\ intervalHandle[w]
  /\ wproc[w] = "up"
  /\ IF isRunning[w]
       THEN /\ wlog' = [wlog EXCEPT ![w] = "skipped"]
            /\ UNCHANGED <<isRunning, wpc, apc>>
       ELSE /\ WCallAssignTasks(w)
            /\ UNCHANGED wlog
  /\ UNCHANGED <<intervalHandle, wproc>>
  /\ UNCHANGED <<acand, ascan, asel, aw, aaud, astats, aevents>>
  /\ UNCHANGED <<dbvars, uvars, gvars, rvars, mvars, xvars>>

\* a failed cycle leaves isRunning set
WSettleKeepsFlagOnFailure(w) ==
  /\ wproc[w] # "exited"
  /\ wpc[w] = "awaiting"
  /\ apc[w] \in {"done", "failed"}
  /\ wlog' = [wlog EXCEPT ![w] = IF apc[w] = "done" THEN "stats" ELSE "failed"]
  /\ isRunning' = [isRunning EXCEPT ![w] = (apc[w] = "failed")]
  /\ wpc' = [wpc EXCEPT ![w] = "none"]
  /\ UNCHANGED <<intervalHandle, wproc>>
  /\ UNCHANGED <<dbvars, uvars, avars, gvars, rvars, mvars, xvars>>

\* runAssignmentCycle after its await: the stats are logged, or the error is
\* (catch); finally: isRunning = false
WSettle(w) ==
  /\ wproc[w] # "exited"
  /\ wpc[w] = "awaiting"
  /\ apc[w] \in {"done", "failed"}
  /\ wlog' = [wlog EXCEPT ![w] = IF apc[w] = "done" THEN "stats" ELSE "failed"]
  /\ isRunning' = [isRunning EXCEPT ![w] = FALSE]
  /\ wpc' = [wpc EXCEPT ![w] = "none"]
  /\ UNCHANGED <<intervalHandle, wproc>>
  /\ UNCHANGED <<dbvars, uvars, avars, gvars, rvars, mvars, xvars>>

\* SIGINT / SIGTERM: shutdown clears the interval and calls pool.end
WShutdown(w) ==
  /\ wproc[w] = "up"
  /\ intervalHandle' = [intervalHandle EXCEPT ![w] = FALSE]
  /\ wproc' = [wproc EXCEPT ![w] = "ending"]
  /\ UNCHANGED <<isRunning, wpc, wlog>>
  /\ UNCHANGED <<dbvars, uvars, avars, gvars, rvars, mvars, xvars>>

\* assignTasks holds the client it got from pool.connect until its finally
ClientCheckedOut(w) == wpc[w] = "awaiting" /\ apc[w] \notin {"done", "failed"}

\* pool.end resolves once every client is back in the pool; process.exit(0)
WExit(w) ==
  /\ wproc[w] = "ending"
  /\ ~ClientCheckedOut(w)
  /\ wproc' = [wproc EXCEPT ![w] = "exited"]
  /\ UNCHANGED <<isRunning, intervalHandle, wpc, wlog>>
  /\ UNCHANGED <<dbvars, uvars, avars, gvars, rvars, mvars, xvars>>

----------------------------------------------------------------------------
\* services/laborMetricsAggregationUtils.js

\* JavaScript numbers that are not finite
jsNaN == [t |-> "NaN"]
jsInfinity == [t |-> "Infinity"]
jsNegativeInfinity == [t |-> "-Infinity"]

\* Number.isFinite
isFinite(value) == value.t = "number"

\* how a call ends: with a value, or with an error thrown
Returned(value) == [state |-> "returned", value |-> value]
Thrown(error) == [state |-> "thrown", error |-> error]

\* parseTimeToSeconds throws: the value does not match TIME_PATTERN, or a
\* field is out of its range
InvalidTime(value) ==
  \/ value.t # "time"
  \/ value.hour > 23
  \/ value.minute > 59
  \/ value.second > 59

\* parseTimeToSeconds of a value it does not throw on
parseTimeToSeconds(value) == value.hour * 3600 + value.minute * 60 + value.second

\* the difference of the two times, which is negative for an overnight shift
calculateShiftDurationSecondsSameDay(shiftStart, shiftEnd) ==
  IF InvalidTime(shiftStart) THEN Thrown("Invalid shift_start time value")
  ELSE IF InvalidTime(shiftEnd) THEN Thrown("Invalid shift_end time value")
  ELSE Returned(parseTimeToSeconds(shiftEnd) - parseTimeToSeconds(shiftStart))

calculateShiftDurationSeconds(shiftStart, shiftEnd) ==
  IF InvalidTime(shiftStart) THEN Thrown("Invalid shift_start time value")
  ELSE IF InvalidTime(shiftEnd) THEN Thrown("Invalid shift_end time value")
  ELSE LET shiftStartSeconds == parseTimeToSeconds(shiftStart)
           shiftEndSeconds == parseTimeToSeconds(shiftEnd)
       IN Returned(IF shiftStartSeconds = shiftEndSeconds THEN 0
                   ELSE IF shiftEndSeconds > shiftStartSeconds
                     THEN shiftEndSeconds - shiftStartSeconds
                   ELSE SECONDS_PER_DAY - shiftStartSeconds + shiftEndSeconds)

\* the pairs (active, shift) among the inputs of the model for which
\* 100 * active / shift lies half way between two hundredths and the double
\* that active / shift * 100 evaluates to lies below it
DoublesBelowHalf == {<<23, 160>>}

\* Number((active / shift * 100).toFixed(2)) for 0 <= active < shift, in
\* hundredths of a percent
toFixed2(active, shift) ==
  IF <<active, shift>> \in DoublesBelowHalf THEN (10000 * active) \div shift
  ELSE (2 * 10000 * active + shift) \div (2 * shift)

\* the result is in hundredths of a percent: 1250 is 12.5
calculateUtilizationPercent(totalActiveTimeSeconds, shiftDurationSeconds) ==
  LET safeActiveTime ==
        IF isFinite(totalActiveTimeSeconds)
          THEN GREATEST(0, totalActiveTimeSeconds.n)
          ELSE 0
      safeShiftDuration == IF isFinite(shiftDurationSeconds) THEN shiftDurationSeconds.n ELSE 0
  IN IF safeShiftDuration <= 0 THEN 0
     ELSE IF safeActiveTime >= safeShiftDuration THEN 10000
     ELSE toFixed2(safeActiveTime, safeShiftDuration)

----------------------------------------------------------------------------
\* services/laborMetricsAggregationService.js

\* COALESCE(actual_time_seconds, GREATEST(completed_at - started_at, 0) or 0)
ActiveTime(row) ==
  IF row.actualTime # NoDuration THEN row.actualTime
  ELSE IF row.startedAt # NoTime /\ row.completedAt # NoTime
    THEN GREATEST(row.completedAt - row.startedAt, 0)
  ELSE 0

\* the WHERE clause of METRICS_BY_OPERATOR_SQL, for one group of GROUP BY
CompletedOn(o, date) ==
  {t \in DOMAIN tasks :
     /\ tasks[t].status = "completed"
     /\ tasks[t].operator = o
     /\ DateOf(tasks[t].completedAt) = date}

RECURSIVE SumQuantity(_)
\* SUM(tl.quantity) over the lines of a task
SumQuantity(lines) == IF lines = <<>> THEN 0 ELSE Head(lines).quantity + SumQuantity(Tail(lines))

RECURSIVE SumActiveTime(_)
SumActiveTime(T) ==
  IF T = {} THEN 0
  ELSE LET t == CHOOSE t \in T : TRUE IN ActiveTime(tasks[t]) + SumActiveTime(T \ {t})

RECURSIVE SumUnitsProcessed(_)
SumUnitsProcessed(T) ==
  IF T = {} THEN 0
  ELSE LET t == CHOOSE t \in T : TRUE IN SumQuantity(tasks[t].lines) + SumUnitsProcessed(T \ {t})

\* metricsByOperator.get(operator.id) || zeros.  avg_task_time is kept as
\* the sum and the count it is the quotient of.
MetricValues(o, date) ==
  LET T == CompletedOn(o, date) IN
    [tasksCompleted |-> Cardinality(T),
     unitsProcessed |-> SumUnitsProcessed(T),
     avgTaskTime |-> IF T = {} THEN <<0, 1>> ELSE <<SumActiveTime(T), Cardinality(T)>>,
     totalActiveTimeSeconds |-> SumActiveTime(T)]

\* the order of operator ids (ORDER BY o.id ASC)
OperatorIdOrder == <<"o1", "o2", "o3">>

IsOperator(o) == o \in DOMAIN operators

\* SELECT o.id, o.shift_start::text, o.shift_end::text FROM operators o ORDER BY o.id ASC
OperatorRows == SelectSeq(OperatorIdOrder, IsOperator)

buildUpsertRows(operatorRows, effectiveDate) ==
  [i \in DOMAIN operatorRows |->
     LET metricValues == MetricValues(operatorRows[i], effectiveDate)
         shiftDurationSeconds ==
           calculateShiftDurationSeconds(operators[operatorRows[i]].shiftStart,
                                         operators[operatorRows[i]].shiftEnd).value
     IN [operatorId |-> operatorRows[i],
         date |-> effectiveDate,
         tasksCompleted |-> metricValues.tasksCompleted,
         unitsProcessed |-> metricValues.unitsProcessed,
         avgTaskTime |-> metricValues.avgTaskTime,
         utilizationPercent |->
           calculateUtilizationPercent(jsNumber(metricValues.totalActiveTimeSeconds),
                                       jsNumber(shiftDurationSeconds))]]

\* the rows of the table that conflict with the row on (operator_id, date)
ConflictingRows(table, row) ==
  {i \in DOMAIN table : table[i].operatorId = row.operatorId /\ table[i].date = row.date}

RECURSIVE upsertWithoutConflictClause(_, _, _)
RECURSIVE upsert(_, _, _)

\* INSERT INTO labor_daily_metrics without ON CONFLICT: every row is added
upsertWithoutConflictClause(table, rows, returning) ==
  IF rows = <<>> THEN [table |-> table, rows |-> returning]
  ELSE upsertWithoutConflictClause(Append(table, Head(rows)), Tail(rows),
                                   Append(returning, [row |-> Head(rows), inserted |-> TRUE]))

\* INSERT ... ON CONFLICT (operator_id, date) DO UPDATE SET the four metric
\* columns, RETURNING them and (xmax = 0) AS inserted
upsert(table, rows, returning) ==
  IF rows = <<>> THEN [table |-> table, rows |-> returning]
  ELSE LET row == Head(rows)
           conflicting == ConflictingRows(table, row)
       IN IF conflicting = {}
            THEN upsert(Append(table, row), Tail(rows),
                        Append(returning, [row |-> row, inserted |-> TRUE]))
            ELSE upsert([i \in DOMAIN table |-> IF i \in conflicting THEN row ELSE table[i]],
                        Tail(rows),
                        Append(returning, [row |-> row, inserted |-> FALSE]))

RECURSIVE SumTasksCompleted(_)
SumTasksCompleted(rows) ==
  IF rows = <<>> THEN 0 ELSE Head(rows).row.tasksCompleted + SumTasksCompleted(Tail(rows))

RECURSIVE SumUnits(_)
SumUnits(rows) ==
  IF rows = <<>> THEN 0 ELSE Head(rows).row.unitsProcessed + SumUnits(Tail(rows))

\* aggregateLaborDailyMetrics({ date }): the table after COMMIT and the
\* counts returned, or the error thrown after ROLLBACK
aggregateLaborDailyMetrics(effectiveDate) ==
  IF \E o \in DOMAIN operators :
       calculateShiftDurationSeconds(operators[o].shiftStart, operators[o].shiftEnd).state = "thrown"
    THEN Thrown("Invalid time value")
  ELSE IF OperatorRows = <<>>
    THEN Returned([table |-> laborDailyMetrics,
                   stats |-> [NoAggregation EXCEPT !.date = effectiveDate]])
  ELSE LET upsertResult == upsert(laborDailyMetrics, buildUpsertRows(OperatorRows, effectiveDate), <<>>)
           inserted == {i \in DOMAIN upsertResult.rows : upsertResult.rows[i].inserted}
       IN Returned([table |-> upsertResult.table,
                    stats |-> [date |-> effectiveDate,
                               operatorsProcessed |-> Len(upsertResult.rows),
                               insertedCount |-> Cardinality(inserted),
                               updatedCount |-> Len(upsertResult.rows) - Cardinality(inserted),
                               totalTasksCompleted |-> SumTasksCompleted(upsertResult.rows),
                               totalUnitsProcessed |-> SumUnits(upsertResult.rows)]])

\* the days the worker runs on (toLocalIsoDate(runDate))
AggregationDates == {2, 3}

----------------------------------------------------------------------------
\* workers/laborMetricsWorker.js

\* scheduleNextRun: nothing when shutting down, else a timer for the next run
\* is armed and kept in timeoutHandle
scheduleNextRunAlways ==
  /\ timerPending' = TRUE
  /\ timeoutHandle' = TRUE
  /\ mpc' = "sleeping"

scheduleNextRun ==
  IF isShuttingDown
    THEN /\ mpc' = "stopped"
         /\ UNCHANGED <<timerPending, timeoutHandle>>
    ELSE /\ timerPending' = TRUE
         /\ timeoutHandle' = TRUE
         /\ mpc' = "sleeping"

\* start: with runOnStartup a cycle is started and awaited, else the first
\* run is scheduled
MStart ==
  /\ mpc = "start"
  /\ IF runOnStartup
       THEN /\ runningPromise' = TRUE
            /\ mcycle' = "running"
            /\ mpc' = "startupCycle"
            /\ UNCHANGED <<timerPending, timeoutHandle>>
       ELSE /\ scheduleNextRun
            /\ UNCHANGED <<runningPromise, mcycle>>
  /\ UNCHANGED <<runOnStartup, isShuttingDown, mlog, msd,
               laborDailyMetrics, mstats>>
  /\ UNCHANGED <<dbvars, uvars, avars, gvars, rvars, wvars, xvars>>

\* the timer fires: runningPromise = runAggregationCycle("schedule", nextRunAt)
MTimerFires ==
  /\ timerPending
  /\ timerPending' = FALSE
  /\ runningPromise' = TRUE
  /\ mcycle' = "running"
  /\ mpc' = "scheduledCycle"
  /\ UNCHANGED <<runOnStartup, timeoutHandle, isShuttingDown, mlog, msd,
               laborDailyMetrics, mstats>>
  /\ UNCHANGED <<dbvars, uvars, avars, gvars, rvars, wvars, xvars>>

\* runAggregationCycle: aggregateLaborDailyMetrics commits its upsert, or
\* throws and is caught; either way the promise of the cycle resolves
MAggregate(ok, effectiveDate) ==
  /\ mcycle = "running"
  /\ msd # "exited"
  /\ LET result == aggregateLaborDailyMetrics(effectiveDate) IN
       IF ok /\ result.state = "returned"
         THEN /\ laborDailyMetrics' = result.value.table
              /\ mstats' = result.value.stats
              /\ operators' = [o \in DOMAIN operators |->
                                [operators[o] EXCEPT !.workload =
                                   MetricValues(o, effectiveDate).tasksCompleted]]
              /\ mlog' = "stats"
         ELSE /\ mlog' = "failed"
              /\ UNCHANGED <<laborDailyMetrics, mstats, operators>>
  /\ mcycle' = "settled"
  /\ UNCHANGED <<runOnStartup, timeoutHandle, timerPending, isShuttingDown, runningPromise, mpc, msd>>
  /\ UNCHANGED <<tasks, audit, tlock, olock, uvars, avars, gvars, rvars, wvars, xvars>>

\* start or the timer callback after its await: runningPromise = null, scheduleNextRun()
MAfterCycle ==
  /\ mpc \in {"startupCycle", "scheduledCycle"}
  /\ mcycle = "settled"
  /\ msd # "exited"
  /\ runningPromise' = FALSE
  /\ mcycle' = "none"
  /\ scheduleNextRun
  /\ UNCHANGED <<runOnStartup, isShuttingDown, mlog, msd,
               laborDailyMetrics, mstats>>
  /\ UNCHANGED <<dbvars, uvars, avars, gvars, rvars, wvars, xvars>>

\* SIGINT / SIGTERM: shutdown up to its first await: the flag is set, a timer
\* is cleared, and either the running cycle is awaited or pool.end is called
MShutdown ==
  /\ msd = "none"
  /\ mpc # "start"
  /\ isShuttingDown' = TRUE
  /\ timerPending' = IF timeoutHandle THEN FALSE ELSE timerPending
  /\ timeoutHandle' = FALSE
  /\ msd' = IF runningPromise THEN "awaitingCycle" ELSE "ending"
  /\ UNCHANGED <<runOnStartup, runningPromise, mcycle, mpc, mlog,
               laborDailyMetrics, mstats>>
  /\ UNCHANGED <<dbvars, uvars, avars, gvars, rvars, wvars, xvars>>

\* shutdown after its await of runningPromise: runningPromise = null, pool.end
MShutdownResumes ==
  /\ msd = "awaitingCycle"
  /\ mcycle # "running"
  /\ runningPromise' = FALSE
  /\ msd' = "ending"
  /\ UNCHANGED <<runOnStartup, timeoutHandle, timerPending, isShuttingDown, mcycle, mpc, mlog,
               laborDailyMetrics, mstats>>
  /\ UNCHANGED <<dbvars, uvars, avars, gvars, rvars, wvars, xvars>>

\* pool.end has resolved: process.exit(0)
MExit ==
  /\ msd = "ending"
  /\ mcycle # "running"
  /\ msd' = "exited"
  /\ UNCHANGED <<runOnStartup, timeoutHandle, timerPending, isShuttingDown, runningPromise, mcycle, mpc, mlog,
               laborDailyMetrics, mstats>>
  /\ UNCHANGED <<dbvars, uvars, avars, gvars, rvars, wvars, xvars>>

\* The worker specification: one assignment worker process and the metrics
\* worker process on one task and one operator
\* one assignment worker process, whose cycle is the assigner of the same name
AssignmentWorkers == {"a1"}

InitWorkerProcesses ==
  /\ InitDb({1}, {"o1"}) /\ InitProcs({}, {"a1"}, {1}) /\ InitWorkers({}) /\ InitNoCalls /\ InitBus(FALSE)
  /\ InitAssignmentWorkers(AssignmentWorkers)
  /\ InitMetricsWorker(TRUE)

NextWorkerProcesses ==
  \/ \E w \in DOMAIN wproc : WStart(w)
  \/ \E w \in DOMAIN wproc : WTick(w)
  \/ \E w \in DOMAIN wproc : WSettle(w)
  \/ \E w \in DOMAIN wproc : WShutdown(w)
  \/ \E w \in DOMAIN wproc : WExit(w)
  \/ \E a \in DOMAIN apc : ABegin(a)
  \/ \E a \in DOMAIN apc : ALockCandidates(a)
  \/ \E a \in DOMAIN apc : AFindScan(a)
  \/ \E a \in DOMAIN apc : AFindLock(a)
  \/ \E a \in DOMAIN apc : AAssignUpdate(a)
  \/ \E a \in DOMAIN apc : AInsertAudit(a)
  \/ \E a \in DOMAIN apc : ACommit(a)
  \/ \E a \in DOMAIN apc : APublish(a)
  \/ \E a \in DOMAIN apc : AStatementFails(a)
  \/ \E a \in DOMAIN apc : ARollback(a)
  \/ MStart
  \/ MTimerFires
  \/ \E ok \in BOOLEAN, effectiveDate \in AggregationDates : MAggregate(ok, effectiveDate)
  \/ MAfterCycle
  \/ MShutdown
  \/ MShutdownResumes
  \/ MExit

SpecWorkerProcesses == InitWorkerProcesses /\ [][NextWorkerProcesses]_vars

\* the event loop runs what is ready: an interval that is set fires again,
\* and the code after an await runs once the awaited promise has settled
SpecWorkerProcessesFair ==
  /\ SpecWorkerProcesses
  /\ WF_vars(\E w \in DOMAIN wproc : WTick(w))
  /\ WF_vars(\E w \in DOMAIN wproc : WSettle(w))
  /\ WF_vars(MAfterCycle)

\* The metrics specification: the metrics worker aggregates day after day
\* while an API caller takes two started tasks on, to completed, paused or
\* cancelled.  Task 1 is the task of operator o1, created on day 1; task 2
\* has two units and is another task of o1 created on day 1, or the task
\* of operator o2 created on day 2.
InitMetricsTasks ==
  {[t \in {1, 2} |->
      UpdatedRow(AssignedRow([f[t] EXCEPT !.createdAt = IF t = 1 THEN 1 ELSE day,
                                          !.lines[1].quantity = t],
                             IF t = 1 \/ day = 1 THEN "o1" ELSE "o2"),
                 "in_progress")] :
     f \in {g \in InitTasks({1, 2}) : \A t \in {1, 2} : g[t].zone = "zA" /\ g[t].priority = 50},
     day \in {1, 2}}

InitMetrics ==
  /\ events = <<>>
  /\ tasks \in InitMetricsTasks
  /\ audit = [t \in {1, 2} |-> <<>>]
  /\ operators = InitOperators({"o1", "o2"})
  /\ tlock = [t \in {1, 2} |-> None]
  /\ olock = [o \in {"o1", "o2"} |-> None]
  /\ InitProcs({"u1"}, {}, {1, 2}) /\ InitWorkers({}) /\ InitNoCalls /\ InitBus(FALSE)
  /\ InitAssignmentWorkers({})
  /\ InitMetricsWorker(TRUE)

NextMetrics ==
  \/ \E p \in DOMAIN upc, taskId \in DOMAIN tasks \cup {MissingTask},
        changedByOperatorId \in ChangedByOperatorIds :
       UBegin(p, taskId, changedByOperatorId)
  \/ \E p \in DOMAIN upc, newStatus \in TASK_STATUSES, expectedVersion \in ExpectedVersions :
       USelectForUpdate(p, newStatus, expectedVersion)
  \/ \E p \in DOMAIN upc : UUpdate(p)
  \/ \E p \in DOMAIN upc : UInsertAudit(p)
  \/ \E p \in DOMAIN upc : UCommit(p)
  \/ \E p \in DOMAIN upc : UPublish(p)
  \/ \E p \in DOMAIN upc : URollback(p)
  \/ MStart
  \/ MTimerFires
  \/ \E ok \in BOOLEAN, effectiveDate \in AggregationDates : MAggregate(ok, effectiveDate)
  \/ MAfterCycle

SpecMetrics == InitMetrics /\ [][NextMetrics]_vars

----------------------------------------------------------------------------
\* taskGenerationLogic.js / taskGenerationService.js: generateTasksForOrderEvent
\*
\* Events arrive already well-formed (normalizeTaskGenerationEvent does not
\* throw).  The event key is read by the first INSERT; type, ship date and
\* lines are drawn at the step that first reads them.

\* payload lines per event
MaxLines == 2

EventKeys == {"k1", "k2"}

ORDER_EVENT_TYPES == {"sales_order_ready_for_pick", "purchase_order_received"}

\* location_zones: locations 1, 2 and 4 are mapped, location 3 is not
location_zones == (1 :> "zA") @@ (2 :> "zB") @@ (4 :> "zA")

LocationIds == {1, 2, 3}

\* whole days from now to the ship date of a sales order (a purchase order
\* has no ship date: the field stays 0)
DaysUntilShip == {1}

DEFAULT_PICK_BASE_TIME_SECONDS == 90
DEFAULT_PICK_TIME_PER_UNIT_SECONDS == 12
DEFAULT_PUTAWAY_BASE_TIME_SECONDS == 75
DEFAULT_PUTAWAY_TIME_PER_UNIT_SECONDS == 10
DEFAULT_PUTAWAY_PRIORITY == 60

\* the lines of a normalized event: one SKU, one unit, a location each
EventLines ==
  UNION {[1..n -> [skuId : {1}, quantity : {1}, locationId : LocationIds]] : n \in 1..MaxLines}

calculateEstimatedTimeSeconds(units, baseTimeSeconds, timePerUnitSeconds) ==
  baseTimeSeconds + units * timePerUnitSeconds

\* milliseconds of a day
msPerDay == 86400000

\* a Date and what new Date(value) is for a value that is no date
jsDate(ms) == [t |-> "date", ms |-> ms]
jsInvalidDate == [t |-> "InvalidDate"]

\* parseDate throws: !value or an invalid Date
parseDateThrows(value) == value.t # "date"

\* Math.floor((shipDateValue.getTime() - nowValue.getTime()) / msPerDay)
daysUntilShipOf(shipDate, now) == (shipDate.ms - now.ms) \div msPerDay

\* the steps of the priority one day late: 100 up to one day, 90 at two
calculatePickPriorityOneDayLate(daysUntilShip) ==
  IF daysUntilShip <= 1 THEN 100
  ELSE IF daysUntilShip = 2 THEN 90
  ELSE IF daysUntilShip <= 3 THEN 70
  ELSE 50

calculatePickPriority(daysUntilShip) ==
  IF daysUntilShip <= 0 THEN 100
  ELSE IF daysUntilShip = 1 THEN 90
  ELSE IF daysUntilShip <= 3 THEN 70
  ELSE 50

\* `SO:${salesOrderId}` / `PO:${purchaseOrderId}`: one document of each kind
SourceDocumentId(type) == IF type = "sales_order_ready_for_pick" THEN "SO:1" ELSE "PO:1"

\* pickLocationId / destinationLocationId of every line
extractLocationIds(normalizedEvent) ==
  {normalizedEvent.lines[i].locationId : i \in DOMAIN normalizedEvent.lines}

\* the location ids resolveZoneByLocationMap finds no location_zones row for
MissingLocationIds(locationIds) == locationIds \ DOMAIN location_zones

\* groupLinesByZone throws: zoneResolver answers nothing for the location of a line
groupLinesByZoneThrows(lines) ==
  \E i \in DOMAIN lines : lines[i].locationId \notin DOMAIN location_zones

RECURSIVE groupLinesByZonePerLine(_, _)
RECURSIVE groupLinesByZone(_, _)

\* every line opens a group of its own
groupLinesByZonePerLine(lines, grouped) ==
  IF lines = <<>> THEN grouped
  ELSE groupLinesByZonePerLine(Tail(lines),
         Append(grouped, [zoneId |-> location_zones[Head(lines).locationId],
                          lines |-> <<Head(lines)>>]))

\* groups in order of first appearance of the zone (a Map), lines in event order
groupLinesByZone(lines, grouped) ==
  IF lines = <<>> THEN grouped
  ELSE LET line == Head(lines)
           zoneId == location_zones[line.locationId]
           at == {i \in DOMAIN grouped : grouped[i].zoneId = zoneId}
       IN groupLinesByZone(Tail(lines),
            IF at = {}
              THEN Append(grouped, [zoneId |-> zoneId, lines |-> <<line>>])
              ELSE [grouped EXCEPT ![CHOOSE i \in at : TRUE].lines = Append(@, line)])

RECURSIVE TotalUnits(_)
TotalUnits(lines) == IF lines = <<>> THEN 0 ELSE Head(lines).quantity + TotalUnits(Tail(lines))

buildSalesOrderPickTaskSpecs(event) ==
  LET groupedByZone == groupLinesByZone(event.lines, <<>>) IN
    [g \in DOMAIN groupedByZone |->
       [type |-> "pick",
        priority |-> calculatePickPriority(event.daysUntilShip),
        zoneId |-> groupedByZone[g].zoneId,
        sourceDocumentId |-> SourceDocumentId(event.type),
        estimatedTimeSeconds |->
          calculateEstimatedTimeSeconds(TotalUnits(groupedByZone[g].lines),
            DEFAULT_PICK_BASE_TIME_SECONDS, DEFAULT_PICK_TIME_PER_UNIT_SECONDS),
        lines |-> [i \in DOMAIN groupedByZone[g].lines |->
                     [skuId |-> groupedByZone[g].lines[i].skuId,
                      fromLocationId |-> groupedByZone[g].lines[i].locationId,
                      toLocationId |-> None,
                      quantity |-> groupedByZone[g].lines[i].quantity,
                      status |-> "created"]]]]

buildPurchaseOrderPutawayTaskSpecs(event) ==
  LET groupedByZone == groupLinesByZone(event.lines, <<>>) IN
    [g \in DOMAIN groupedByZone |->
       [type |-> "putaway",
        priority |-> DEFAULT_PUTAWAY_PRIORITY,
        zoneId |-> groupedByZone[g].zoneId,
        sourceDocumentId |-> SourceDocumentId(event.type),
        estimatedTimeSeconds |->
          calculateEstimatedTimeSeconds(TotalUnits(groupedByZone[g].lines),
            DEFAULT_PUTAWAY_BASE_TIME_SECONDS, DEFAULT_PUTAWAY_TIME_PER_UNIT_SECONDS),
        lines |-> [i \in DOMAIN groupedByZone[g].lines |->
                     [skuId |-> groupedByZone[g].lines[i].skuId,
                      fromLocationId |-> None,
                      toLocationId |-> groupedByZone[g].lines[i].locationId,
                      quantity |-> groupedByZone[g].lines[i].quantity,
                      status |-> "created"]]]]

buildTaskSpecList(normalizedEvent) ==
  IF normalizedEvent.type = "sales_order_ready_for_pick"
    THEN buildSalesOrderPickTaskSpecs(normalizedEvent)
    ELSE buildPurchaseOrderPutawayTaskSpecs(normalizedEvent)

\* the unique index on event_key never finds a committed row
EventKeyNeverTaken(eventKey) == FALSE

\* a committed task_generation_events row has this event_key
EventKeyTaken(eventKey) == \E i \in DOMAIN events : events[i].eventKey = eventKey

\* the INSERT never waits for a transaction in progress
EventInsertNeverWaits(w, eventKey) == FALSE

\* another transaction in progress has inserted this event_key: the INSERT
\* waits until that transaction commits or rolls back
EventInsertWaits(w, eventKey) ==
  \E w2 \in DOMAIN gpc : w2 # w /\ gw[w2].eventKey = eventKey

\* normalizeTaskGenerationEvent, pool.connect, BEGIN
GBegin(w, eventKey) ==
  /\ gpc[w] \in {"idle", "done"}
  /\ gev' = [gev EXCEPT ![w] = [NoEvent EXCEPT !.eventKey = eventKey]]
  /\ gnow' = [gnow EXCEPT ![w] = Len(events) + 1]
  /\ gres' = [gres EXCEPT ![w] = NoResult]
  /\ gpc' = [gpc EXCEPT ![w] = "event"]
  /\ UNCHANGED <<events, gspecs, gw, dbvars, uvars, avars, rvars, wvars, mvars, xvars>>

\* INSERT INTO task_generation_events ... ON CONFLICT (event_key) DO NOTHING RETURNING id
GInsertEvent(w) ==
  /\ gpc[w] = "event"
  /\ ~EventInsertWaits(w, gev[w].eventKey)
  /\ IF EventKeyTaken(gev[w].eventKey)
       THEN /\ gpc' = [gpc EXCEPT ![w] = "skip"]
            /\ UNCHANGED gw
       ELSE /\ gw' = [gw EXCEPT ![w].eventKey = gev[w].eventKey]
            /\ gpc' = [gpc EXCEPT ![w] = "resolve"]
  /\ UNCHANGED <<events, gev, gnow, gspecs, gres, dbvars, uvars, avars, rvars, wvars, mvars, xvars>>

\* rowCount === 0: COMMIT, return { skipped: true, reason: "duplicate_event", tasks: [] }
GSkipCommit(w) ==
  /\ gpc[w] = "skip"
  /\ gres' = [gres EXCEPT ![w] =
       [error |-> None, skipped |-> TRUE, reason |-> "duplicate_event", tasks |-> <<>>]]
  /\ gpc' = [gpc EXCEPT ![w] = "done"]
  /\ UNCHANGED <<events, gev, gnow, gspecs, gw, dbvars, uvars, avars, rvars, wvars, mvars, xvars>>

\* extractLocationIds, resolveZoneByLocationMap, buildTaskSpecList
GResolveZones(w, type, daysUntilShip, lines) ==
  /\ gpc[w] = "resolve"
  /\ LET event == [eventKey |-> gev[w].eventKey, type |-> type,
                   daysUntilShip |-> daysUntilShip, lines |-> lines]
     IN IF MissingLocationIds(extractLocationIds(event)) # {}
          THEN /\ gres' = [gres EXCEPT ![w].error = "400"]
               /\ gpc' = [gpc EXCEPT ![w] = "rollback"]
               /\ UNCHANGED <<gev, gspecs>>
          ELSE /\ gev' = [gev EXCEPT ![w] = event]
               /\ gspecs' = [gspecs EXCEPT ![w] = buildTaskSpecList(event)]
               /\ gpc' = [gpc EXCEPT ![w] = "task"]
               /\ UNCHANGED gres
  /\ UNCHANGED <<events, gnow, gw, dbvars, uvars, avars, rvars, wvars, mvars, xvars>>

\* createTaskWithLines: INSERT INTO tasks (...) VALUES (...) RETURNING ...
GInsertTask(w) ==
  /\ gpc[w] = "task"
  /\ gw' = [gw EXCEPT ![w].tasks =
              Append(@, NewTaskRow(Head(gspecs[w]), gev[w].eventKey, gnow[w]))]
  /\ gpc' = [gpc EXCEPT ![w] = "line"]
  /\ UNCHANGED <<events, gev, gnow, gspecs, gres, dbvars, uvars, avars, rvars, wvars, mvars, xvars>>

\* createTaskWithLines: INSERT INTO task_lines (...) for the next line of the
\* task; after the last line the loop goes on to the next taskSpec
GInsertLine(w) ==
  /\ gpc[w] = "line"
  /\ LET line == Head(Head(gspecs[w]).lines)
         rest == Tail(Head(gspecs[w]).lines)
         n == Len(gw[w].tasks)
     IN /\ gw' = [gw EXCEPT ![w].tasks[n].lines = Append(@, line)]
        /\ IF rest # <<>>
             THEN /\ gspecs' = [gspecs EXCEPT ![w][1].lines = rest]
                  /\ UNCHANGED gpc
             ELSE /\ gspecs' = [gspecs EXCEPT ![w] = Tail(@)]
                  /\ gpc' = [gpc EXCEPT ![w] =
                       IF Tail(gspecs[w]) # <<>> THEN "task" ELSE "commit"]
  /\ UNCHANGED <<events, gev, gnow, gres, dbvars, uvars, avars, rvars, wvars, mvars, xvars>>

\* an INSERT into tasks or task_lines raises an error (a constraint
\* violation such as an unknown sku_id, or any other database error)
GInsertFails(w) ==
  /\ gpc[w] \in {"task", "line"}
  /\ gres' = [gres EXCEPT ![w].error = "500"]
  /\ gpc' = [gpc EXCEPT ![w] = "rollback"]
  /\ UNCHANGED <<events, gev, gnow, gspecs, gw, dbvars, uvars, avars, rvars, wvars, mvars, xvars>>

\* COMMIT, return { skipped: false, tasks: createdTasks }
GCommit(w) ==
  /\ gpc[w] = "commit"
  /\ events' = Append(events, [eventKey |-> gw[w].eventKey, type |-> gev[w].type,
                               sourceDocumentId |-> SourceDocumentId(gev[w].type)])
  /\ tasks' = tasks \o gw[w].tasks
  /\ audit' = audit \o [i \in DOMAIN gw[w].tasks |-> <<>>]
  /\ tlock' = tlock \o [i \in DOMAIN gw[w].tasks |-> None]
  /\ gres' = [gres EXCEPT ![w].tasks = gw[w].tasks]
  /\ gw' = [gw EXCEPT ![w] = NoWrites]
  /\ gev' = [gev EXCEPT ![w] = [NoEvent EXCEPT !.eventKey = gev[w].eventKey]]
  /\ gpc' = [gpc EXCEPT ![w] = "done"]
  /\ UNCHANGED <<gnow, gspecs, operators, olock, uvars, avars, rvars, wvars, mvars, xvars>>

\* the event row is left behind by the ROLLBACK
GRollbackKeepsEvent(w) ==
  /\ gpc[w] = "rollback"
  /\ events' = Append(events, [eventKey |-> gw[w].eventKey, type |-> gev[w].type,
                               sourceDocumentId |-> SourceDocumentId(gev[w].type)])
  /\ gw' = [gw EXCEPT ![w] = NoWrites]
  /\ gspecs' = [gspecs EXCEPT ![w] = <<>>]
  /\ gev' = [gev EXCEPT ![w] = [NoEvent EXCEPT !.eventKey = gev[w].eventKey]]
  /\ gpc' = [gpc EXCEPT ![w] = "done"]
  /\ UNCHANGED <<gnow, gres, dbvars, uvars, avars, rvars, wvars, mvars, xvars>>

\* catch: ROLLBACK, the error is rethrown; finally: client.release
GRollback(w) ==
  /\ gpc[w] = "rollback"
  /\ gw' = [gw EXCEPT ![w] = NoWrites]
  /\ gspecs' = [gspecs EXCEPT ![w] = <<>>]
  /\ gev' = [gev EXCEPT ![w] = [NoEvent EXCEPT !.eventKey = gev[w].eventKey]]
  /\ gpc' = [gpc EXCEPT ![w] = "done"]
  /\ UNCHANGED <<events, gnow, gres, dbvars, uvars, avars, rvars, wvars, mvars, xvars>>

\* two generation workers, an empty tasks table
InitGen ==
  /\ InitDb({}, {}) /\ InitProcs({}, {}, {}) /\ InitWorkers({"w1", "w2"}) /\ InitNoCalls /\ InitBus(FALSE)
  /\ InitNoWorkerProcesses

NextGen ==
  \/ \E w \in DOMAIN gpc, eventKey \in EventKeys : GBegin(w, eventKey)
  \/ \E w \in DOMAIN gpc : GInsertEvent(w)
  \/ \E w \in DOMAIN gpc : GSkipCommit(w)
  \/ \E w \in DOMAIN gpc, type \in ORDER_EVENT_TYPES, lines \in EventLines :
       \E daysUntilShip \in IF type = "sales_order_ready_for_pick" THEN DaysUntilShip ELSE {0} :
         GResolveZones(w, type, daysUntilShip, lines)
  \/ \E w \in DOMAIN gpc : GInsertTask(w)
  \/ \E w \in DOMAIN gpc : GInsertLine(w)
  \/ \E w \in DOMAIN gpc : GInsertFails(w)
  \/ \E w \in DOMAIN gpc : GCommit(w)
  \/ \E w \in DOMAIN gpc : GRollback(w)

SpecGen == InitGen /\ [][NextGen]_vars

\* ------------------------------------------------------------------
\* taskGenerationQueue.js, taskGenerationWorker.js, POST /api/order-events:
\* the BullMQ queue "task-generation" and the worker that consumes it.
\* A job is [state, data, attemptsStarted, attemptsMade, delay, worker];
\* jobs holds the jobs the queue still keeps, by job id.
\* ------------------------------------------------------------------

\* defaultJobOptions.attempts
attempts == 5

\* defaultJobOptions.backoff: { type: "exponential", delay: 1000 }, the
\* delay in milliseconds before the attempt that follows attemptsMade failures
backoffDelay(attemptsMade) == 1000 * 2 ^ (attemptsMade - 1)

\* every failure is retried, whatever the number of attempts
shouldRetryAlways(job) == TRUE

\* a failed attempt is retried while fewer than attempts attempts were made
shouldRetry(job) == job.attemptsMade + 1 < attempts

\* the normalized events the route enqueues: receipts with an event key and
\* either two lines of two zones or one line at location 3, which has no
\* zone, so that generation answers 400 at every attempt
QueuedLines ==
  {<<[skuId |-> 1, quantity |-> 1, locationId |-> 1],
     [skuId |-> 1, quantity |-> 1, locationId |-> 2]>>,
   <<[skuId |-> 1, quantity |-> 1, locationId |-> 3]>>}

QueuedEvents ==
  [eventKey : EventKeys, type : {"purchase_order_received"}, daysUntilShip : {0},
   lines : QueuedLines]

\* the job a worker slot is processing
ActiveJobs(w) == {id \in DOMAIN jobs : jobs[id].state = "active" /\ jobs[id].worker = w}

\* router.post("/"): normalizeTaskGenerationEvent, enqueueOrderEventJob:
\* queue.add(type, event, { jobId: event.eventKey }); an id the queue already
\* holds adds nothing
enqueueOrderEventJob(normalizedEvent) ==
  /\ jobs' = IF normalizedEvent.eventKey \in DOMAIN jobs
               THEN jobs
               ELSE jobs @@ (normalizedEvent.eventKey :>
                      [state |-> "waiting", data |-> normalizedEvent, attemptsStarted |-> 0,
                       attemptsMade |-> 0, delay |-> 0, worker |-> None])
  /\ UNCHANGED <<fvars, tx, sched, dbvars, uvars, avars, gvars, rvars, wvars, mvars>>

\* the Worker takes the next waiting job into a free slot
JTake(w, id) ==
  /\ gpc[w] = "idle"
  /\ ActiveJobs(w) = {}
  /\ id \in DOMAIN jobs
  /\ jobs[id].state = "waiting"
  /\ jobs' = [jobs EXCEPT ![id].state = "active", ![id].worker = w,
                          ![id].attemptsStarted = @ + 1]
  /\ UNCHANGED <<fvars, tx, sched, dbvars, uvars, avars, gvars, rvars, wvars, mvars>>

\* async (job) => generateTasksForOrderEvent(job.data): the call
JProcess(w) ==
  \E id \in ActiveJobs(w) :
    /\ gpc[w] = "idle"
    /\ GBegin(w, jobs[id].data.eventKey)

\* generateTasksForOrderEvent(job.data) reads the event of the job
JResolveZones(w) ==
  \E id \in ActiveJobs(w) :
    GResolveZones(w, jobs[id].data.type, jobs[id].data.daysUntilShip, jobs[id].data.lines)

\* the processor's promise settles: resolved, the job is completed;
\* rejected, it is delayed for a retry or, attempts exhausted, failed
JSettle(w) ==
  \E id \in ActiveJobs(w) :
    /\ gpc[w] = "done"
    /\ LET job == jobs[id]
           made == [job EXCEPT !.attemptsMade = @ + 1, !.worker = None]
       IN jobs' = [jobs EXCEPT ![id] =
            IF gres[w].error = None
              THEN [made EXCEPT !.state = "completed"]
              ELSE IF shouldRetry(job)
                     THEN [made EXCEPT !.state = "delayed",
                                       !.delay = backoffDelay(made.attemptsMade)]
                     ELSE [made EXCEPT !.state = "failed"]]
    /\ gpc' = [gpc EXCEPT ![w] = "idle"]
    /\ UNCHANGED <<events, gev, gnow, gspecs, gw, gres>>
    /\ UNCHANGED <<fvars, tx, sched, dbvars, uvars, avars, rvars, wvars, mvars>>

\* the backoff delay of a delayed job has passed
JBackoffElapsed(id) ==
  /\ id \in DOMAIN jobs
  /\ jobs[id].state = "delayed"
  /\ jobs' = [jobs EXCEPT ![id].state = "waiting", ![id].delay = 0]
  /\ UNCHANGED <<fvars, tx, sched, dbvars, uvars, avars, gvars, rvars, wvars, mvars>>

\* removeOnComplete: 1000, removeOnFail: 1000: a finished job leaves the
\* queue once a thousand later ones have finished
JRemove(id) ==
  /\ id \in DOMAIN jobs
  /\ jobs[id].state \in {"completed", "failed"}
  /\ jobs' = [j \in DOMAIN jobs \ {id} |-> jobs[j]]
  /\ UNCHANGED <<fvars, tx, sched, dbvars, uvars, avars, gvars, rvars, wvars, mvars>>

NextQueue ==
  \/ \E normalizedEvent \in QueuedEvents : enqueueOrderEventJob(normalizedEvent)
  \/ \E w \in DOMAIN gpc, id \in EventKeys : JTake(w, id)
  \/ \E w \in DOMAIN gpc : JProcess(w)
  \/ \E w \in DOMAIN gpc : GInsertEvent(w)
  \/ \E w \in DOMAIN gpc : GSkipCommit(w)
  \/ \E w \in DOMAIN gpc : JResolveZones(w)
  \/ \E w \in DOMAIN gpc : GInsertTask(w)
  \/ \E w \in DOMAIN gpc : GInsertLine(w)
  \/ \E w \in DOMAIN gpc : GInsertFails(w)
  \/ \E w \in DOMAIN gpc : GCommit(w)
  \/ \E w \in DOMAIN gpc : GRollback(w)
  \/ \E w \in DOMAIN gpc : JSettle(w)
  \/ \E id \in EventKeys : JBackoffElapsed(id)
  \/ \E id \in EventKeys : JRemove(id)

SpecQueue == InitGen /\ [][NextQueue]_vars

\* The function specification: one call of a pure function per behaviour,
\* with arguments of the sets below.
MaxCallLines == 3

ActiveTimeValues ==
  {jsNumber(n) : n \in {-5, 0, 1, 23, 3600, 28800, 28801, 999999}}
    \cup {jsNaN, jsInfinity, jsNegativeInfinity}

ShiftDurationValues ==
  {jsNumber(n) : n \in {-1, 0, 1, 160, 800, 3600, 28800}}
    \cup {jsNaN, jsInfinity, jsNegativeInfinity}

TimeValues ==
  {jsTime(h, m, sec) : h \in {0, 8, 22, 23, 24}, m \in {0, 30, 60}, sec \in {0, 59}} \cup {jsNull}

ShipDateValues ==
  {jsDate(d * msPerDay + e) : d \in 0..6, e \in {-1, 0, 1}} \cup {jsInvalidDate, jsNull}

NowValues == {jsDate(msPerDay), jsDate(2 * msPerDay + 1), jsInvalidDate}

CallLines ==
  UNION {[1..n -> [skuId : {1}, quantity : {1, 2}, locationId : LocationIds \cup {4}]] :
           n \in 1..MaxCallLines}

FunctionCalls ==
  {[fn |-> "calculateUtilizationPercent", args |-> <<a, sh>>] :
     a \in ActiveTimeValues, sh \in ShiftDurationValues}
  \cup {[fn |-> "calculateShiftDurationSeconds", args |-> <<a, b>>] :
           a \in TimeValues, b \in TimeValues}
  \cup {[fn |-> "calculatePickPriority", args |-> <<a, b>>] :
           a \in ShipDateValues, b \in NowValues}
  \cup {[fn |-> "buildTaskSpecList",
          args |-> <<[eventKey |-> "k1", type |-> type, daysUntilShip |-> 1, lines |-> lines]>>] :
           type \in ORDER_EVENT_TYPES, lines \in CallLines}

InitFunctions ==
  /\ InitDb({}, {}) /\ InitProcs({}, {}, {}) /\ InitWorkers({}) /\ InitBus(FALSE)
  /\ InitNoWorkerProcesses
  /\ fcall \in FunctionCalls
  /\ fret = [state |-> "pending"]
  /\ jobs = [j \in {} |-> None]
  /\ tx = NoExecution
  /\ sched = NoSchedule

\* the call ends: fret is what it returned or threw
Ends(fn, result) ==
  /\ fcall.fn = fn
  /\ fret.state = "pending"
  /\ fret' = result
  /\ UNCHANGED <<fcall, jobs, tx, sched, dbvars, uvars, avars, gvars, rvars, wvars, mvars>>

CallUtilizationPercent ==
  Ends("calculateUtilizationPercent",
       Returned(calculateUtilizationPercent(fcall.args[1], fcall.args[2])))

CallShiftDurationSeconds ==
  Ends("calculateShiftDurationSeconds",
       calculateShiftDurationSeconds(fcall.args[1], fcall.args[2]))

\* calculatePickPriority(shipDate, now)
CallPickPriority ==
  Ends("calculatePickPriority",
       IF parseDateThrows(fcall.args[1]) \/ parseDateThrows(fcall.args[2])
         THEN Thrown("400")
         ELSE Returned(calculatePickPriority(daysUntilShipOf(fcall.args[1], fcall.args[2]))))

\* buildSalesOrderPickTaskSpecs / buildPurchaseOrderPutawayTaskSpecs(event, zoneResolver)
CallBuildTaskSpecList ==
  Ends("buildTaskSpecList",
       IF groupLinesByZoneThrows(fcall.args[1].lines)
         THEN Thrown("400")
         ELSE Returned(buildTaskSpecList(fcall.args[1])))

NextFunctions ==
  \/ CallUtilizationPercent
  \/ CallShiftDurationSeconds
  \/ CallPickPriority
  \/ CallBuildTaskSpecList

SpecFunctions == InitFunctions /\ [][NextFunctions]_vars

----------------------------------------------------------------------------
\* taskGenerationLogic.js: normalizeTaskGenerationEvent.  A payload is a
\* record of js values, a string is the sequence of its pieces (" " is
\* white space), an absent property reads as undefined.

\* payload.field
Get(object, field) == IF field \in DOMAIN object THEN object[field] ELSE jsUndefined

\* the numbers of the model and their decimal text
NumberTexts == (0 :> "0") @@ (1 :> "1") @@ (2 :> "2") @@ (7 :> "7") @@ (12 :> "12")

\* String(value)
StringOf(value) ==
  CASE value.t = "string" -> value.s
    [] value.t = "number" -> <<NumberTexts[value.n]>>
    [] OTHER -> <<value.t>>

\* String(value || "").trim()
TrimmedText(value) == IF Truthy(value) THEN trim(StringOf(value)) ELSE <<>>

\* Number(value): a number stays, a string is read as decimal text ("" is 0),
\* null is 0, everything else is NaN
NumberOf(value) ==
  CASE value.t = "number" -> value
    [] value.t = "string" ->
         IF trim(value.s) = <<>> THEN jsNumber(0)
         ELSE IF \E n \in DOMAIN NumberTexts : trim(value.s) = <<NumberTexts[n]>>
           THEN jsNumber(CHOOSE n \in DOMAIN NumberTexts : trim(value.s) = <<NumberTexts[n]>>)
           ELSE jsNaN
    [] value.t = "null" -> jsNumber(0)
    [] OTHER -> jsNaN

\* parsePositiveInteger throws: Number(value) is no integer above 0
parsePositiveIntegerThrows(value) == NumberOf(value).t # "number" \/ NumberOf(value).n <= 0

\* the date texts of the model and their time value in milliseconds
DateTexts ==
  ("1970-01-01T00:00:00.001Z" :> 1) @@ ("1970-01-02T00:00:00.000Z" :> msPerDay)
    @@ ("1970-01-02" :> msPerDay) @@ ("1970-01-02T01:00:00+01:00" :> msPerDay)

\* new Date(value)
newDate(value) ==
  CASE value.t = "string" /\ Len(value.s) = 1 /\ value.s[1] \in DOMAIN DateTexts ->
         jsDate(DateTexts[value.s[1]])
    [] value.t = "number" -> jsDate(value.n)
    [] OTHER -> jsInvalidDate

\* parseDate throws: !value || Number.isNaN(parsed.getTime())
parseDateTextThrows(value) == ~Truthy(value) \/ newDate(value) = jsInvalidDate

\* Date.prototype.toISOString
toISOString(date) ==
  jsString(<<IF date.ms = 1 THEN "1970-01-01T00:00:00.001Z" ELSE "1970-01-02T00:00:00.000Z">>)

\* a ?? b
Coalesce(a, b) == IF a.t \in {"undefined", "null"} THEN b ELSE a

\* the event key of the payload is never looked at
providedEventKeyIgnored(payload) == <<>>

\* payload.eventKey ? String(payload.eventKey).trim() : ""
providedEventKey(payload) ==
  IF Truthy(Get(payload, "eventKey")) THEN trim(StringOf(Get(payload, "eventKey"))) ELSE <<>>

\* `${safeEventType}:${safeSourceDocumentId}:${randomUUID()}`; both parts
\* are non-empty where normalize calls it
createEventKey(eventType, sourceDocumentId, uuid) ==
  trim(eventType) \o <<":">> \o trim(sourceDocumentId) \o <<":", uuid>>

\* providedEventKey || createEventKey(type, sourceDocumentId)
EventKeyOf(payload, eventType, sourceDocumentId, uuid) ==
  IF providedEventKey(payload) # <<>> THEN providedEventKey(payload)
  ELSE createEventKey(eventType, sourceDocumentId, uuid)

\* !Array.isArray(payload.lines) || payload.lines.length === 0
NoLines(payload) == Get(payload, "lines").t # "array" \/ Get(payload, "lines").a = <<>>

\* the location of a sales line: line.pickLocationId ?? line.fromLocationId
PickLocationOf(line) == Coalesce(Get(line, "pickLocationId"), Get(line, "fromLocationId"))

\* the location of a receipt line: line.destinationLocationId ?? line.toLocationId
DestinationLocationOf(line) ==
  Coalesce(Get(line, "destinationLocationId"), Get(line, "toLocationId"))

normalizeSalesOrderEvent(payload, uuid) ==
  LET salesOrderId == TrimmedText(Get(payload, "salesOrderId"))
      lines == Get(payload, "lines").a
      sourceDocumentId == <<"SO:">> \o salesOrderId
  IN IF salesOrderId = <<>> THEN Thrown("400")
     ELSE IF parseDateTextThrows(Get(payload, "shipDate")) THEN Thrown("400")
     ELSE IF NoLines(payload) THEN Thrown("400")
     ELSE IF \E i \in DOMAIN lines :
                \/ parsePositiveIntegerThrows(Get(lines[i], "skuId"))
                \/ parsePositiveIntegerThrows(Get(lines[i], "quantity"))
                \/ parsePositiveIntegerThrows(PickLocationOf(lines[i]))
       THEN Thrown("400")
     ELSE Returned(
       [type |-> jsString(<<"sales_order_ready_for_pick">>),
        sourceDocumentId |-> jsString(sourceDocumentId),
        eventKey |-> jsString(EventKeyOf(payload, <<"sales_order_ready_for_pick">>,
                                         sourceDocumentId, uuid)),
        salesOrderId |-> jsString(salesOrderId),
        shipDate |-> toISOString(newDate(Get(payload, "shipDate"))),
        lines |-> jsArray([i \in DOMAIN lines |->
                    [skuId |-> NumberOf(Get(lines[i], "skuId")),
                     quantity |-> NumberOf(Get(lines[i], "quantity")),
                     pickLocationId |-> NumberOf(PickLocationOf(lines[i]))]])])

normalizePurchaseOrderEvent(payload, uuid) ==
  LET purchaseOrderId == TrimmedText(Get(payload, "purchaseOrderId"))
      lines == Get(payload, "lines").a
      sourceDocumentId == <<"PO:">> \o purchaseOrderId
      receivedAt == Get(payload, "receivedAt")
  IN IF purchaseOrderId = <<>> THEN Thrown("400")
     ELSE IF NoLines(payload) THEN Thrown("400")
     ELSE IF \E i \in DOMAIN lines :
                \/ parsePositiveIntegerThrows(Get(lines[i], "skuId"))
                \/ parsePositiveIntegerThrows(Get(lines[i], "quantity"))
                \/ parsePositiveIntegerThrows(DestinationLocationOf(lines[i]))
                \/ /\ Get(lines[i], "fromLocationId").t \notin {"undefined", "null"}
                   /\ parsePositiveIntegerThrows(Get(lines[i], "fromLocationId"))
       THEN Thrown("400")
     ELSE IF Truthy(receivedAt) /\ parseDateTextThrows(receivedAt) THEN Thrown("400")
     ELSE Returned(
       [type |-> jsString(<<"purchase_order_received">>),
        sourceDocumentId |-> jsString(sourceDocumentId),
        eventKey |-> jsString(EventKeyOf(payload, <<"purchase_order_received">>,
                                         sourceDocumentId, uuid)),
        purchaseOrderId |-> jsString(purchaseOrderId),
        receivedAt |-> IF Truthy(receivedAt) THEN toISOString(newDate(receivedAt)) ELSE jsNull,
        lines |-> jsArray([i \in DOMAIN lines |->
                    [skuId |-> NumberOf(Get(lines[i], "skuId")),
                     quantity |-> NumberOf(Get(lines[i], "quantity")),
                     destinationLocationId |-> NumberOf(DestinationLocationOf(lines[i])),
                     fromLocationId |->
                       IF Get(lines[i], "fromLocationId").t \in {"undefined", "null"}
                         THEN jsNull ELSE NumberOf(Get(lines[i], "fromLocationId"))]])])

\* uuid is what randomUUID() answers if it is called
normalizeTaskGenerationEvent(payload, uuid) ==
  LET type == TrimmedText(Get(payload, "type"))
  IN IF type = <<>> THEN Thrown("400")
     ELSE IF type = <<"sales_order_ready_for_pick">> THEN normalizeSalesOrderEvent(payload, uuid)
     ELSE IF type = <<"purchase_order_received">> THEN normalizePurchaseOrderEvent(payload, uuid)
     ELSE Thrown("400")

\* The ingress specification: one request body is posted, normalized by the
\* route and, as the data of its job, normalized again by the worker at
\* every attempt.
UUIDs == {"uuid1", "uuid2"}

TypeValues ==
  {jsUndefined, jsString(<<"sales_order_ready_for_pick">>),
   jsString(<<" ", "purchase_order_received", " ">>), jsString(<<"count_requested">>)}

DocumentIdValues ==
  {jsUndefined, jsString(<<" ", "A", " ", "1", " ">>), jsString(<<" ">>), jsNumber(12), jsNumber(0)}

DateValues ==
  {jsUndefined, jsNull, jsString(<<"1970-01-02">>), jsString(<<"1970-01-02T01:00:00+01:00">>),
   jsString(<<"1970-01-01T00:00:00.001Z">>), jsString(<<"tomorrow">>), jsNumber(1)}

EventKeyValues ==
  {jsUndefined, jsString(<<>>), jsString(<<" ">>), jsString(<<" ", "k1", " ">>),
   jsString(<<"k", " ", "2">>), jsNumber(7)}

PayloadLines ==
  {jsUndefined, jsArray(<<>>),
   jsArray(<<[skuId |-> jsString(<<"1">>), quantity |-> jsNumber(2),
              pickLocationId |-> jsNumber(1), toLocationId |-> jsString(<<" ", "2">>),
              fromLocationId |-> jsNumber(7)]>>),
   jsArray(<<[skuId |-> jsNumber(1), quantity |-> jsString(<<"12">>),
              fromLocationId |-> jsString(<<"2">>), destinationLocationId |-> jsNumber(1)],
             [skuId |-> jsNumber(2), quantity |-> jsNumber(1), pickLocationId |-> jsNull,
              fromLocationId |-> jsNumber(2), destinationLocationId |-> jsUndefined,
              toLocationId |-> jsNumber(2)]>>),
   jsArray(<<[skuId |-> jsNumber(1), quantity |-> jsNumber(0), pickLocationId |-> jsNumber(1),
              destinationLocationId |-> jsNumber(1)]>>)}

Payloads ==
  [type : TypeValues, salesOrderId : DocumentIdValues, purchaseOrderId : DocumentIdValues,
   shipDate : DateValues, receivedAt : DateValues, eventKey : EventKeyValues, lines : PayloadLines]

InitIngress ==
  /\ InitDb({}, {}) /\ InitProcs({}, {}, {}) /\ InitWorkers({}) /\ InitBus(FALSE)
  /\ InitNoWorkerProcesses
  /\ fcall \in {[fn |-> "normalizeTaskGenerationEvent", args |-> <<payload>>] : payload \in Payloads}
  /\ fret = [state |-> "pending"]
  /\ jobs = [j \in {} |-> None]
  /\ tx = NoExecution
  /\ sched = NoSchedule

\* router.post("/"): normalizeTaskGenerationEvent(req.body); the normalized
\* event becomes the data of the job, no attempt made yet
PostOrderEvent(uuid) ==
  /\ fret.state = "pending"
  /\ LET result == normalizeTaskGenerationEvent(fcall.args[1], uuid)
     IN fret' = IF result.state = "returned"
                  THEN [state |-> "returned", value |-> result.value, attempted |-> <<>>]
                  ELSE result
  /\ UNCHANGED <<fcall, jobs, tx, sched, dbvars, uvars, avars, gvars, rvars, wvars, mvars>>

\* generateTasksForOrderEvent(job.data), first statement, at one attempt of
\* the job: normalizeTaskGenerationEvent(eventPayload)
AttemptNormalizes(uuid) ==
  /\ fret.state = "returned"
  /\ Len(fret.attempted) < attempts
  /\ fret' = [fret EXCEPT !.attempted = Append(@, normalizeTaskGenerationEvent(fret.value, uuid))]
  /\ UNCHANGED <<fcall, jobs, tx, sched, dbvars, uvars, avars, gvars, rvars, wvars, mvars>>

NextIngress ==
  \/ \E uuid \in UUIDs : PostOrderEvent(uuid)
  \/ \E uuid \in UUIDs : AttemptNormalizes(uuid)

SpecIngress == InitIngress /\ [][NextIngress]_vars

\* ---------------------------------------------------------------------------
\* The transaction and the pool client of one execution of updateTaskStatus,
\* assignTasks, generateTasksForOrderEvent or aggregateLaborDailyMetrics.
\* The four functions share one skeleton:
\*   const client = await pool.connect(); let inTransaction = false;
\*   try { BEGIN; inTransaction = true; ...; COMMIT; inTransaction = false; ... }
\*   catch (error) { if (inTransaction) ROLLBACK; throw error }
\*   finally { client.release() }
\* A statement of the try block is "BEGIN", "COMMIT", "query" (any other
\* client.query), "throw" (a conditional throw of the function's own code),
\* "publish" (a publishRealtimeEvent whose failure is caught on the spot) or
\* "return".

TransactionalFunctions ==
  {"updateTaskStatus", "assignTasks", "generateTasksForOrderEvent",
   "aggregateLaborDailyMetrics"}

\* the concatenations of n bodies, each drawn from bodies
RECURSIVE Repeat(_, _)
Repeat(bodies, n) ==
  IF n = 0 THEN {<<>>}
  ELSE {body \o more : body \in bodies, more \in Repeat(bodies, n - 1)}

\* the statements of the try block of updateTaskStatus, in order, when none fails
updateTaskStatusStatements ==
  {<<"BEGIN">> \o operatorCheck
     \o <<"query", "throw", "query", "throw", "query", "COMMIT", "publish", "return">> :
     operatorCheck \in {<<>>, <<"query", "throw">>}}

\* one candidate task of assignTasks: no operator found, the guarded UPDATE
\* matches no row, or the UPDATE and the audit INSERT
assignTasksCandidate ==
  {<<"query">>, <<"query", "query">>, <<"query", "query", "query">>}

assignTasksStatements ==
  UNION {{<<"BEGIN", "query", "query">> \o loop \o <<"COMMIT", "publish", "return">> :
            loop \in Repeat(assignTasksCandidate, n)} : n \in 0..batchSize}

\* createTaskWithLines: the task INSERT and one INSERT per line
createTaskWithLines ==
  {<<"query">> \o lines : lines \in UNION {Repeat({<<"query">>}, n) : n \in 1..MaxLines}}

generateTasksForOrderEventStatements ==
  {<<"BEGIN", "query", "COMMIT", "return">>}
    \cup UNION {{<<"BEGIN", "query", "query", "throw">> \o loop \o <<"COMMIT", "return">> :
                   loop \in Repeat(createTaskWithLines, n)} : n \in 1..2}

aggregateLaborDailyMetricsStatements ==
  {<<"BEGIN", "query", "COMMIT", "return">>,
   <<"BEGIN", "query", "query", "throw", "query", "COMMIT", "return">>}

Statements(fn) ==
  CASE fn = "updateTaskStatus" -> updateTaskStatusStatements
    [] fn = "assignTasks" -> assignTasksStatements
    [] fn = "generateTasksForOrderEvent" -> generateTasksForOrderEventStatements
    [] fn = "aggregateLaborDailyMetrics" -> aggregateLaborDailyMetricsStatements

\* the flag that drives the catch block, as never set
inTransactionNeverSet(statement, inTransaction) == FALSE

\* inTransaction after a statement of the try block has succeeded
inTransactionAfter(statement, inTransaction) ==
  CASE statement = "BEGIN" -> TRUE
    [] statement = "COMMIT" -> FALSE
    [] OTHER -> inTransaction

\* the server's transaction after a statement has succeeded
TransactionAfter(statement, transaction) ==
  CASE statement = "BEGIN" -> "open"
    [] statement \in {"COMMIT", "ROLLBACK"} /\ transaction = "open" ->
         IF statement = "COMMIT" THEN "committed" ELSE "rolledback"
    [] OTHER -> transaction

InitTransactions ==
  /\ InitDb({}, {}) /\ InitProcs({}, {}, {}) /\ InitWorkers({}) /\ InitBus(FALSE)
  /\ InitNoWorkerProcesses
  /\ fcall = [fn |-> None]
  /\ fret = [state |-> None]
  /\ jobs = [j \in {} |-> None]
  /\ sched = NoSchedule
  /\ tx \in UNION {{[fn |-> fn, pc |-> "start", rest |-> rest, inTransaction |-> FALSE,
                      transaction |-> None, client |-> "pooled", checkouts |-> 0,
                      releases |-> 0, issued |-> <<>>, error |-> FALSE] :
                       rest \in Statements(fn)} : fn \in TransactionalFunctions}

\* the argument checks before pool.connect throw
TArgumentsThrow ==
  /\ tx.pc = "start"
  /\ tx' = [tx EXCEPT !.pc = "thrown", !.error = TRUE]
  /\ UNCHANGED <<fvars, jobs, sched, dbvars, uvars, avars, gvars, rvars, wvars, mvars>>

\* const client = await pool.connect(), which may reject
TConnect ==
  /\ tx.pc = "start"
  /\ \/ tx' = [tx EXCEPT !.pc = "try", !.client = "checkedOut", !.checkouts = @ + 1]
     \/ tx' = [tx EXCEPT !.pc = "thrown", !.error = TRUE]
  /\ UNCHANGED <<fvars, jobs, sched, dbvars, uvars, avars, gvars, rvars, wvars, mvars>>

\* the next statement of the try block succeeds
TStatement ==
  /\ tx.pc = "try"
  /\ LET statement == Head(tx.rest)
     IN tx' = [tx EXCEPT
                 !.rest = Tail(@),
                 !.pc = IF statement = "return" THEN "finally" ELSE "try",
                 !.issued = IF statement \in {"BEGIN", "COMMIT"}
                              THEN Append(@, statement) ELSE @,
                 !.transaction = TransactionAfter(statement, @),
                 !.inTransaction = inTransactionAfter(statement, @)]
  /\ UNCHANGED <<fvars, jobs, sched, dbvars, uvars, avars, gvars, rvars, wvars, mvars>>

\* the next statement of the try block throws: a rejected client.query or a
\* throw of the function's own code
TStatementThrows ==
  /\ tx.pc = "try"
  /\ Head(tx.rest) \in {"BEGIN", "query", "throw", "COMMIT"}
  /\ tx' = [tx EXCEPT
              !.pc = "catch", !.error = TRUE,
              !.issued = IF Head(tx.rest) \in {"BEGIN", "COMMIT"}
                           THEN Append(@, Head(tx.rest)) ELSE @]
  /\ UNCHANGED <<fvars, jobs, sched, dbvars, uvars, avars, gvars, rvars, wvars, mvars>>

\* catch (error) { if (inTransaction) { await client.query("ROLLBACK") } throw error }
\* A ROLLBACK is rejected only when the connection is lost, and the server
\* then aborts the transaction of that connection.
TCatch ==
  /\ tx.pc = "catch"
  /\ IF tx.inTransaction
       THEN \/ tx' = [tx EXCEPT !.pc = "finally", !.issued = Append(@, "ROLLBACK"),
                                !.transaction = TransactionAfter("ROLLBACK", @)]
            \/ tx' = [tx EXCEPT !.pc = "finally", !.issued = Append(@, "ROLLBACK"),
                                !.transaction = IF @ = "open" THEN "aborted" ELSE @]
       ELSE tx' = [tx EXCEPT !.pc = "finally"]
  /\ UNCHANGED <<fvars, jobs, sched, dbvars, uvars, avars, gvars, rvars, wvars, mvars>>

\* finally { client.release() }, then the return or the rethrow
TFinally ==
  /\ tx.pc = "finally"
  /\ tx' = [tx EXCEPT !.pc = IF tx.error THEN "thrown" ELSE "returned",
                      !.client = "pooled", !.releases = @ + 1]
  /\ UNCHANGED <<fvars, jobs, sched, dbvars, uvars, avars, gvars, rvars, wvars, mvars>>



NextTransactions ==
  \/ TArgumentsThrow
  \/ TConnect
  \/ TStatement
  \/ TStatementThrows
  \/ TCatch
  \/ TFinally

SpecTransactions == InitTransactions /\ [][NextTransactions]_vars

\* ---------------------------------------------------------------------------
\* workers/laborMetricsWorker.js on a clock.  An instant is a number of hours
\* since local midnight of day 0; the configured hour:minute is one wall-clock
\* hour of the day.  The process runs in a time zone: local days of 24 hours,
\* or a zone with daylight saving time, where the clock jumps from 02:00 to
\* 03:00 on one day (23 hours) and falls back from 02:00 to 01:00 on another
\* (25 hours).

\* the last local day the clock reaches
MaxDay == 3

DEFAULT_RUN_HOUR == 23

TimeZones == {"fixed", "dst"}

\* the hours of local day d in zone
DayLength(zone, d) ==
  IF zone = "dst" /\ d = 1 THEN 23
  ELSE IF zone = "dst" /\ d = 3 THEN 25
  ELSE 24

\* the instant of local midnight of day d
RECURSIVE DayStart(_, _)
DayStart(zone, d) == IF d = 0 THEN 0 ELSE DayStart(zone, d - 1) + DayLength(zone, d - 1)

\* Date.getDate() and Date.getHours() of an instant
LocalOf(zone, t) ==
  LET d == CHOOSE x \in 0..(MaxDay + 3) : DayStart(zone, x) <= t /\ t < DayStart(zone, x + 1)
      k == t - DayStart(zone, d)
  IN [date |-> d,
      hours |-> IF DayLength(zone, d) = 23 THEN (IF k < 2 THEN k ELSE k + 1)
                ELSE IF DayLength(zone, d) = 25 THEN (IF k <= 1 THEN k ELSE k - 1)
                ELSE k]

\* the instant of a wall-clock hour of a local day, as Date resolves it: an
\* hour the clock skips is taken one hour later, an hour the clock repeats is
\* taken at its first occurrence
InstantOf(zone, d, hours) ==
  DayStart(zone, d) +
    (IF DayLength(zone, d) = 23 THEN (IF hours <= 2 THEN hours ELSE hours - 1)
     ELSE IF DayLength(zone, d) = 25 THEN (IF hours <= 1 THEN hours ELSE hours + 1)
     ELSE hours)

\* getNextRunAt: setHours(runHour, runMinute, 0, 0) on the day of fromDate;
\* when that is not later than fromDate, setDate(getDate() + 1) on the result
getNextRunAt(zone, runHour, fromDate) ==
  LET today == InstantOf(zone, LocalOf(zone, fromDate).date, runHour)
  IN IF today <= fromDate
       THEN InstantOf(zone, LocalOf(zone, today).date + 1, LocalOf(zone, today).hours)
       ELSE today

\* the worker has started at any hour of day 0, without a run on startup
InitSchedule ==
  /\ InitDb({}, {}) /\ InitProcs({}, {}, {}) /\ InitWorkers({}) /\ InitBus(FALSE)
  /\ InitNoWorkerProcesses
  /\ fcall = [fn |-> None]
  /\ fret = [state |-> None]
  /\ jobs = [j \in {} |-> None]
  /\ tx = NoExecution
  /\ sched \in {[pc |-> "start", zone |-> zone, runHour |-> runHour, now |-> now,
                 from |-> None, nextRunAt |-> None, runs |-> <<>>] :
                  zone \in TimeZones, runHour \in {1, 2, DEFAULT_RUN_HOUR}, now \in 0..23}

\* scheduleNextRun at start, and in the timer callback after the cycle was
\* awaited: now = new Date(), nextRunAt = getNextRunAt(now), setTimeout
KScheduleNextRun ==
  /\ sched.pc \in {"start", "cycle"}
  /\ sched' = [sched EXCEPT !.pc = "sleeping", !.from = sched.now,
                            !.nextRunAt = getNextRunAt(sched.zone, sched.runHour, sched.now)]
  /\ UNCHANGED <<fvars, jobs, tx, dbvars, uvars, avars, gvars, rvars, wvars, mvars>>

\* the timer fires, not before its delay has passed:
\* runAggregationCycle("schedule", nextRunAt)
KTimerFires ==
  /\ sched.pc = "sleeping"
  /\ sched.now >= sched.nextRunAt
  /\ sched' = [sched EXCEPT !.pc = "cycle", !.runs = Append(@, sched.nextRunAt)]
  /\ UNCHANGED <<fvars, jobs, tx, dbvars, uvars, avars, gvars, rvars, wvars, mvars>>

\* an hour passes, while the worker sleeps, before a late timer fires, or
\* during the cycle
KHourPasses ==
  /\ sched.pc # None
  /\ sched.now + 1 < DayStart(sched.zone, MaxDay + 1)
  /\ sched' = [sched EXCEPT !.now = @ + 1]
  /\ UNCHANGED <<fvars, jobs, tx, dbvars, uvars, avars, gvars, rvars, wvars, mvars>>

NextSchedule ==
  \/ KScheduleNextRun
  \/ KTimerFires
  \/ KHourPasses

SpecSchedule == InitSchedule /\ [][NextSchedule]_vars

----------------------------------------------------------------------------
\* Properties of the task lifecycle

\* the transitions of the documented state machine, as <<from, to>> pairs
ClaimedTransitions ==
  {<<"created", "assigned">>, <<"assigned", "in_progress">>,
   <<"in_progress", "paused">>, <<"paused", "in_progress">>,
   <<"in_progress", "completed">>,
   <<"created", "cancelled">>, <<"assigned", "cancelled">>,
   <<"in_progress", "cancelled">>, <<"paused", "cancelled">>}

TerminalStatuses == {"completed", "cancelled", "failed"}

\* C1: updateTaskStatus accepts a status change exactly when <<current, new>>
\* is one of the documented transitions (cancellation only from a non-terminal
\* status); every other pair is rejected.  Stated on a call about to read the
\* row (the set of targets it would accept) and on a call that was accepted.
C1_TransitionClosure ==
  \A p \in DOMAIN upc :
    /\ (upc[p] = "select" /\ ucall[p].taskId \in DOMAIN tasks) =>
         \A new \in TASK_STATUSES :
           isValidTaskTransition(tasks[ucall[p].taskId].status, new)
             <=> <<tasks[ucall[p].taskId].status, new>> \in ClaimedTransitions
    /\ upc[p] \in {"update", "audit", "commit"} =>
         <<ucur[p].status, ucall[p].newStatus>> \in ClaimedTransitions

\* C2: a task in completed, cancelled or failed never changes its status or
\* its version again.
C2_TerminalIsFinal ==
  [][\A t \in DOMAIN tasks :
       tasks[t].status \in TerminalStatuses =>
         /\ tasks'[t].status = tasks[t].status
         /\ tasks'[t].version = tasks[t].version]_vars

\* the committed tasks of an operator that are assigned, in_progress or paused
ActiveTasksOf(o) ==
  {t \in DOMAIN tasks : tasks[t].operator = o /\ tasks[t].status \in ACTIVE_TASK_STATUSES}

\* C3: at every commit boundary an operator has at most one task in an
\* active status, whatever the interleaving of assigners and updaters.
C3_AtMostOneActiveTask ==
  \A o \in DOMAIN operators : Cardinality(ActiveTasksOf(o)) <= 1

\* C4: the version of a task never decreases; every committed mutation
\* (updateTaskStatus or auto-assignment) raises it by exactly one; the steps
\* of a rejected call leave the task and its audit rows unchanged.
C4_VersionMonotonic ==
  [][/\ \A t \in DOMAIN tasks :
          /\ tasks'[t].version >= tasks[t].version
          /\ tasks'[t] # tasks[t] => tasks'[t].version = tasks[t].version + 1
     /\ \A p \in DOMAIN upc :
          /\ (upc[p] = "commit" /\ upc'[p] = "publish") =>
               /\ uw'[p] = tasks'[ucall[p].taskId]
               /\ tasks'[ucall[p].taskId].version = tasks[ucall[p].taskId].version + 1
          /\ (upc'[p] # upc[p] /\ ures'[p] \in {"400", "404", "409"}) =>
               /\ tasks' = tasks
               /\ audit' = audit
     /\ \A a \in DOMAIN apc :
          (apc[a] = "commit" /\ apc'[a] \in {"publish", "done"}) =>
            \A t \in DOMAIN tasks :
              aw[a][t].status # None => tasks'[t].version = tasks[t].version + 1]_vars

\* a task mutated by the assigner and by an updater while a call was rejected
C4_Witness ==
  \E t \in DOMAIN tasks, p \in DOMAIN upc :
    /\ tasks[t].version >= 3
    /\ \E i \in 1..Len(audit[t]) : audit[t][i].changedBy = None
    /\ \E i \in 1..Len(audit[t]) : audit[t][i].changedBy # None
    /\ upc[p] = "done"
    /\ ures[p] = "409"

\* C5: a call whose expectedVersion differs from the version of the row it
\* read is rejected with 409 and has no pending write; a call that gets past
\* the check passed no version or the version it read.
C5_StaleVersionRejected ==
  \A p \in DOMAIN upc :
    /\ (ucur[p].status # None /\ ucall[p].expectedVersion # NoVersion
          /\ ucall[p].expectedVersion # ucur[p].version) =>
         /\ upc[p] \in {"rollback", "done"}
         /\ ures[p] = "409"
         /\ uw[p] = NoRow
         /\ uaud[p] = NoRow
    /\ upc[p] \in {"update", "audit", "commit"} =>
         ucall[p].expectedVersion \in {NoVersion, ucur[p].version}

\* A succeeded with expectedVersion v, B passed v afterwards and got 409
C5_Witness ==
  \E p, q \in DOMAIN upc :
    /\ p # q
    /\ upc[p] = "done" /\ ures[p] = "ok"
    /\ upc[q] = "done" /\ ures[q] = "409"
    /\ ucall[p].taskId = ucall[q].taskId
    /\ ucall[p].expectedVersion = ucall[q].expectedVersion
    /\ ucur[q].status # None
    /\ ucur[q].version = ucall[q].expectedVersion + 1

\* the call got past the version and transition checks
PassedChecks(p) ==
  \/ upc[p] \in {"update", "audit", "commit", "publish", "publishAssigned"}
  \/ upc[p] = "done" /\ ures[p] = "ok"

\* C6: of two updateTaskStatus calls on the same task with the same
\* expectedVersion at most one gets past the checks and succeeds; no update
\* is lost: the audit rows of a task carry the versions 2, 3, ... in order
\* and the last one is the version of the task.
C6_AtMostOneWinner ==
  /\ \A p, q \in DOMAIN upc :
       (/\ p # q
        /\ ucall[p].taskId = ucall[q].taskId
        /\ ucall[p].expectedVersion # NoVersion
        /\ ucall[p].expectedVersion = ucall[q].expectedVersion)
         => ~(PassedChecks(p) /\ PassedChecks(q))
  /\ \A t \in DOMAIN tasks :
       /\ tasks[t].version = Len(audit[t]) + 1
       /\ \A i \in 1..Len(audit[t]) : audit[t][i].taskVersion = i + 1

\* both callers read the task at the same version while the other was
\* still running; one committed, the other was rejected with 409
C6_Witness ==
  \E p, q \in DOMAIN upc :
    /\ p # q
    /\ upc[p] = "done" /\ ures[p] = "ok"
    /\ upc[q] \in {"rollback", "done"} /\ ures[q] = "409"
    /\ ucall[p].taskId = ucall[q].taskId
    /\ ucall[p].taskId \in DOMAIN tasks
    /\ ucall[p].expectedVersion # NoVersion
    /\ ucall[p].expectedVersion = ucall[q].expectedVersion
    /\ tasks[ucall[p].taskId].version = ucall[p].expectedVersion + 1
    /\ Len(audit[ucall[p].taskId]) = ucall[p].expectedVersion

\* C7: the audit rows of a task, in order, are a path of the documented state
\* machine that starts at created, and the last to_status is the current
\* status of the task.
C7_AuditIsValidPath ==
  \A t \in DOMAIN tasks :
    LET rows == audit[t] IN
      /\ Len(rows) = 0 => tasks[t].status = "created"
      /\ Len(rows) > 0 =>
           /\ rows[1].fromStatus = "created"
           /\ rows[Len(rows)].toStatus = tasks[t].status
      /\ \A i \in 1..Len(rows) :
           /\ <<rows[i].fromStatus, rows[i].toStatus>> \in ClaimedTransitions
           /\ i > 1 => rows[i].fromStatus = rows[i - 1].toStatus

----------------------------------------------------------------------------
\* Properties of task generation

\* the event keys of the committed task_generation_events rows
CommittedEventKeys == {events[i].eventKey : i \in DOMAIN events}

\* the committed tasks inserted while processing the event with this key
TasksOfEvent(eventKey) == {t \in DOMAIN tasks : tasks[t].eventKey = eventKey}

\* C8: a call whose eventKey is already committed when its INSERT runs takes
\* the duplicate path, inserts nothing, and returns skipped: true with no
\* tasks; its COMMIT leaves the events and the tasks as they were, and the
\* tasks stored for a committed key never change afterwards.
C8_DuplicateIsSkipped ==
  [][/\ \A w \in DOMAIN gpc :
          /\ (gpc[w] = "event" /\ gpc'[w] # "event"
                /\ gev[w].eventKey \in CommittedEventKeys) =>
               /\ gpc'[w] = "skip"
               /\ gw'[w] = NoWrites
          /\ (gpc[w] = "skip" /\ gpc'[w] # "skip") =>
               /\ gpc'[w] = "done"
               /\ gres'[w].error = None
               /\ gres'[w].skipped
               /\ gres'[w].tasks = <<>>
               /\ events' = events
               /\ tasks' = tasks
     /\ \A k \in CommittedEventKeys :
          /\ TasksOfEvent(k)' = TasksOfEvent(k)
          /\ \A t \in TasksOfEvent(k) : tasks'[t] = tasks[t]]_vars

\* a second call for a key whose first call created two tasks was skipped
C8_Witness ==
  \E w, w2 \in DOMAIN gpc :
    /\ w # w2
    /\ gpc[w] = "done" /\ gres[w].error = None /\ ~gres[w].skipped
    /\ Len(gres[w].tasks) = 2
    /\ gpc[w2] = "done" /\ gres[w2].skipped
    /\ gev[w2].eventKey = gev[w].eventKey
    /\ Cardinality(TasksOfEvent(gev[w].eventKey)) = 2

\* C9: under every interleaving of two workers there is at most one event
\* row per key, at most one transaction at a time holds an uncommitted insert
\* of a key and none holds one of a committed key, and the tasks of a key are
\* created once: they exist only with the event row and are one per zone.
C9_OncePerEventKey ==
  /\ \A i, j \in DOMAIN events : events[i].eventKey = events[j].eventKey => i = j
  /\ \A w, w2 \in DOMAIN gpc :
       (w # w2 /\ gw[w].eventKey # None) => gw[w].eventKey # gw[w2].eventKey
  /\ \A w \in DOMAIN gpc : gw[w].eventKey \notin CommittedEventKeys
  /\ \A t \in DOMAIN tasks : tasks[t].eventKey \in CommittedEventKeys
  /\ \A t, t2 \in DOMAIN tasks :
       (tasks[t].eventKey = tasks[t2].eventKey /\ tasks[t].zone = tasks[t2].zone) => t = t2

\* both workers were given the same key; one created the tasks while the
\* other was waiting to insert the event row
C9_Witness ==
  \E w, w2 \in DOMAIN gpc :
    /\ w # w2
    /\ gev[w].eventKey = gev[w2].eventKey
    /\ gpc[w] = "done" /\ gres[w].error = None /\ ~gres[w].skipped
    /\ gpc[w2] = "event"
    /\ gnow[w2] = 1
    /\ TasksOfEvent(gev[w].eventKey) # {}

\* C10: a call that fails after its event row was inserted (missing zone
\* mapping, error on a task or line INSERT) rolls back: its ROLLBACK leaves
\* no event row, task or line of the call, the key stays uncommitted, and an
\* INSERT of an uncommitted key is never skipped as a duplicate.
C10_FailureIsRetriable ==
  [][\A w \in DOMAIN gpc :
       /\ (gpc'[w] = "rollback" /\ gpc[w] # "rollback") =>
            /\ gpc[w] \in {"resolve", "task", "line"}
            /\ gw[w].eventKey = gev[w].eventKey
            /\ gres'[w].error \in {"400", "500"}
            /\ events' = events
            /\ tasks' = tasks
       /\ (gpc[w] = "rollback" /\ gpc'[w] # "rollback") =>
            /\ gpc'[w] = "done"
            /\ events' = events
            /\ tasks' = tasks
            /\ gw'[w] = NoWrites
            /\ gev[w].eventKey \notin {events'[i].eventKey : i \in DOMAIN events'}
            /\ gres'[w].error \in {"400", "500"}
       /\ (gpc[w] = "event" /\ gpc'[w] # "event"
             /\ gev[w].eventKey \notin CommittedEventKeys) =>
            /\ gpc'[w] = "resolve"
            /\ gw'[w].eventKey = gev[w].eventKey]_vars

\* a call failed after it had inserted a task, and a call with the same key
\* that came after it created the tasks
C10_Witness ==
  \E w, w2 \in DOMAIN gpc :
    /\ w # w2
    /\ gpc[w] = "done" /\ gres[w].error = "500"
    /\ gev[w2].eventKey = gev[w].eventKey
    /\ gpc[w2] = "done" /\ gres[w2].error = None /\ ~gres[w2].skipped
    /\ gnow[w2] = 1
    /\ TasksOfEvent(gev[w].eventKey) # {}
    /\ Len(events) = 1

----------------------------------------------------------------------------
\* Properties of the assignment cycle

\* ORDER BY priority DESC, created_at ASC, on the committed rows
CandidateOrder(t1, t2) ==
  \/ tasks[t1].priority > tasks[t2].priority
  \/ tasks[t1].priority = tasks[t2].priority /\ tasks[t1].createdAt < tasks[t2].createdAt

\* the operators eligible for a zone in the committed state
EligibleOperators(zoneId) ==
  {o \in DOMAIN operators :
     /\ zoneId \in operators[o].zones
     /\ operators[o].status = "available"
     /\ ActiveTasksOf(o) = {}}

\* the candidates of the cycle: the rows it holds locked
CandidatesOf(a) == {t \in DOMAIN tasks : tlock[t] = a}

\* C11: the candidates of a cycle are the first created tasks by priority
\* descending, created_at ascending, and are processed in that order; when
\* the cycle reaches COMMIT, of several candidates of a zone with a single
\* eligible operator only the first in that order is assigned (to that
\* operator), the others are unchanged and counted in unassignedTasks.
C11_FirstCandidateWins ==
  \A a \in DOMAIN apc :
    /\ \A i, j \in 1..Len(acand[a]) : i < j => CandidateOrder(acand[a][i], acand[a][j])
    /\ apc[a] \in {"scan", "pick", "assign", "audit", "commit"} =>
         /\ \A t \in CandidatesOf(a) : tasks[t].status = "created"
         /\ \A t \in CandidatesOf(a), t2 \in DOMAIN tasks \ CandidatesOf(a) :
              tasks[t2].status = "created" => CandidateOrder(t, t2)
    /\ apc[a] = "commit" =>
         /\ astats[a].unassignedTasks =
              Cardinality({t \in CandidatesOf(a) : aw[a][t] = NoRow})
         /\ \A z \in Zones :
              LET C == {t \in CandidatesOf(a) : tasks[t].zone = z}
              IN (Cardinality(EligibleOperators(z)) = 1 /\ Cardinality(C) >= 2) =>
                   \E first \in C :
                     /\ \A t \in C \ {first} : CandidateOrder(first, t)
                     /\ aw[a][first].status = "assigned"
                     /\ aw[a][first].operator \in EligibleOperators(z)
                     /\ aw[a][first].version = tasks[first].version + 1
                     /\ \A t \in C \ {first} : aw[a][t] = NoRow

\* two candidates of zone zA, the younger one with the higher priority, one
\* eligible operator: the cycle is about to commit
C11_Witness ==
  \E a \in DOMAIN apc :
    /\ apc[a] = "commit"
    /\ CandidatesOf(a) = {1, 2}
    /\ tasks[1].zone = tasks[2].zone
    /\ tasks[2].priority > tasks[1].priority
    /\ Cardinality(EligibleOperators(tasks[1].zone)) = 1
    /\ aw[a][2].status = "assigned"
    /\ astats[a].unassignedTasks = 1

\* C12: whenever a cycle assigns a task to an operator, that operator is
\* linked to the task's zone, is available, and has at that moment no task
\* in assigned, in_progress or paused (the committed rows and the rows the
\* cycle has written itself).
C12_ChosenOperatorEligible ==
  \A a \in DOMAIN apc :
    apc[a] = "assign" =>
      /\ tasks[Head(acand[a])].zone \in operators[asel[a]].zones
      /\ operators[asel[a]].status = "available"
      /\ \A t \in DOMAIN tasks :
           Visible(a, t).status \in ACTIVE_TASK_STATUSES => Visible(a, t).operator # asel[a]

\* the created -> assigned rows among the audit rows of a task
AssignmentAuditRows(rows) ==
  {i \in 1..Len(rows) : rows[i].fromStatus = "created" /\ rows[i].toStatus = "assigned"}

\* C13: under every interleaving of concurrent assignment cycles a task goes
\* from created to assigned at most once: no two cycles hold a pending
\* assignment of the same task; the COMMIT of a cycle changes only created
\* tasks, gives each one operator, raises its version by one and appends
\* exactly one created -> assigned audit row carrying that version; a task
\* that has left created keeps its operator, never returns to created and
\* gets no further created -> assigned audit row.
C13_AssignedAtMostOnce ==
  [][\A t \in DOMAIN tasks :
       /\ \A a, b \in DOMAIN apc :
            (a # b /\ aw'[a][t] # NoRow) => aw'[b][t] = NoRow
       /\ Cardinality(AssignmentAuditRows(audit'[t])) <= 1
       /\ (\E a \in DOMAIN apc : apc[a] = "commit" /\ apc'[a] \in {"publish", "done"} /\ aw[a][t] # NoRow) =>
            /\ tasks[t].status = "created"
            /\ tasks'[t].status = "assigned"
            /\ tasks'[t].operator \in DOMAIN operators
            /\ tasks'[t].version = tasks[t].version + 1
            /\ audit'[t] = Append(audit[t],
                 [fromStatus |-> "created", toStatus |-> "assigned",
                  taskVersion |-> tasks'[t].version, changedBy |-> None])
       /\ tasks[t].status # "created" =>
            /\ tasks'[t].status # "created"
            /\ tasks'[t].operator = tasks[t].operator
            /\ AssignmentAuditRows(audit'[t]) = AssignmentAuditRows(audit[t])]_vars

\* two cycles that ran side by side have each committed one assignment
C13_Witness ==
  /\ \A a \in DOMAIN apc : apc[a] = "done" /\ astats[a].assignedTasks = 1
  /\ Cardinality(DOMAIN apc) = 2
  /\ \A t \in DOMAIN tasks :
       /\ tasks[t].status = "assigned"
       /\ tasks[t].version = 2
       /\ Cardinality(AssignmentAuditRows(audit[t])) = 1

----------------------------------------------------------------------------
\* Properties of the realtime events

\* the state change an event reports is committed: the task has an audit row
\* with the event's status and version, and the event names the operator the
\* task had at that version
CommittedChange(event) ==
  /\ event.payload.taskId \in DOMAIN tasks
  /\ \E i \in 1..Len(audit[event.payload.taskId]) :
       /\ audit[event.payload.taskId][i].taskVersion = event.payload.version
       /\ audit[event.payload.taskId][i].toStatus = event.payload.status
  /\ event.payload.operatorId \in {None, tasks[event.payload.taskId].operator}
  /\ event.payload.status = "assigned" /\ event.type = TASK_ASSIGNED =>
       event.payload.operatorId = tasks[event.payload.taskId].operator

\* C14: a TASK_UPDATED or TASK_ASSIGNED event is published only for a state
\* change that is committed when the event is published: the step that puts
\* an event on the channel is taken by a caller or cycle past its COMMIT,
\* and the change is in the committed rows before that step; a cycle that
\* rolls back publishes nothing and drops the events it had collected.
C14_PublishedAfterCommit ==
  [][/\ Len(channel') > Len(channel) =>
          /\ channel'[Len(channel')].type \in {TASK_UPDATED, TASK_ASSIGNED}
          /\ CommittedChange(channel'[Len(channel')])
          /\ \/ \E p \in DOMAIN upc : upc[p] \in {"publish", "publishAssigned"} /\ upc'[p] # upc[p]
             \/ \E a \in DOMAIN apc : apc[a] = "publish" /\ aevents'[a] # aevents[a]
     /\ \A a \in DOMAIN apc :
          (/\ apc[a] \in {"lock", "scan", "pick", "assign", "audit", "commit", "rollback"}
           /\ <<apc[a], acand[a], ascan[a], asel[a], aw[a], aaud[a]>>
                # <<apc'[a], acand'[a], ascan'[a], asel'[a], aw'[a], aaud'[a]>>) =>
            /\ channel' = channel
            /\ apc'[a] = "failed" => aevents'[a] = <<>>
     /\ \A p \in DOMAIN upc :
          (/\ upc[p] \in {"select", "update", "audit", "commit", "rollback"}
           /\ <<upc[p], ucur[p], uw[p], uaud[p]>> # <<upc'[p], ucur'[p], uw'[p], uaud'[p]>>) =>
            channel' = channel]_vars

\* the cycle has committed an assignment and published its TASK_ASSIGNED
\* event; the TASK_UPDATED event is still to be published
C14_Witness ==
  \E a \in DOMAIN apc :
    /\ apc[a] = "publish"
    /\ Len(aevents[a]) = 1
    /\ channel # <<>>
    /\ channel[Len(channel)].type = TASK_ASSIGNED
    /\ tasks[channel[Len(channel)].payload.taskId].status = "assigned"

\* C15: a publish that fails neither undoes nor fails the operation: the
\* committed rows stay as they are; updateTaskStatus returns the updated
\* task; the cycle counts one realtimePublishFailures for the failed event,
\* goes on with the remaining events and returns its stats.
C15_PublishFailureIsHarmless ==
  [][/\ \A p \in DOMAIN upc :
          (upc[p] \in {"publish", "publishAssigned"} /\ upc'[p] # upc[p] /\ ~redisUp) =>
            /\ tasks' = tasks /\ audit' = audit
            /\ channel' = channel
            /\ upc'[p] = "done" /\ ures'[p] = "ok"
            /\ \E i \in 1..Len(audit[ucall[p].taskId]) :
                 /\ audit[ucall[p].taskId][i].taskVersion = uw[p].version
                 /\ audit[ucall[p].taskId][i].toStatus = uw[p].status
     /\ \A a \in DOMAIN apc :
          (apc[a] = "publish" /\ aevents'[a] # aevents[a]) =>
            /\ tasks' = tasks /\ audit' = audit
            /\ aevents'[a] = Tail(aevents[a])
            /\ apc'[a] = IF aevents'[a] = <<>> THEN "done" ELSE "publish"
            /\ astats'[a].assignedTasks = astats[a].assignedTasks
            /\ astats'[a].realtimePublishFailures =
                 astats[a].realtimePublishFailures + (IF redisUp THEN 0 ELSE 1)
            /\ ~redisUp => channel' = channel
            /\ redisUp => channel' = Append(channel, Head(aevents[a]))]_vars

\* a cycle returned its stats with one assignment and one failed publish;
\* the assignment is committed and the other event went out
C15_Witness ==
  \E a \in DOMAIN apc :
    /\ apc[a] = "done"
    /\ astats[a].assignedTasks = 1
    /\ astats[a].realtimePublishFailures = 1
    /\ tasks[1].status = "assigned"
    /\ Len(audit[1]) = 1
    /\ Len(channel) = 1
    /\ channel[1].type = TASK_UPDATED

\* the operator identifiers a payload carries under one of the three keys
CarriedOperatorIds(payload) ==
  {payload.operatorId, payload.operator_id, payload.assignedOperatorId} \ {Absent, None, ""}

\* C20: the broadcast handler is only registered while the socket.io server
\* exists; every event it receives is emitted to room manager; it is emitted
\* to an operator room exactly when its payload carries an operator
\* identifier under operatorId, operator_id or assignedOperatorId, and then
\* to the room operator:<id> of a carried identifier; an event that carries
\* none reaches no operator room; nothing else is emitted.
C20_BroadcastPolicy ==
  [][/\ handler => io
     /\ (handler /\ channel # <<>> /\ channel' = Tail(channel)) =>
          /\ [room |-> MANAGER_ROOM, event |-> Head(channel)] \in emitted'
          /\ (CarriedOperatorIds(Head(channel).payload) # {}) <=>
               (\E x \in emitted' : x.event = Head(channel) /\ x.room # MANAGER_ROOM)
          /\ \A x \in emitted' \ emitted :
               /\ x.event = Head(channel)
               /\ \/ x.room = MANAGER_ROOM
                  \/ \E id \in CarriedOperatorIds(x.event.payload) : x.room = "operator:" \o id
     /\ ~(handler /\ channel # <<>> /\ channel' = Tail(channel)) => emitted' = emitted]_vars

\* an event with operatorId null and the operator under assignedOperatorId
\* has been emitted to the manager room and to that operator's room
C20_Witness ==
  \E x \in emitted, y \in emitted :
    /\ x.event = y.event
    /\ x.room = MANAGER_ROOM
    /\ y.room = "operator:o2"
    /\ x.event.payload.operatorId = None
    /\ x.event.payload.operator_id = Absent
    /\ x.event.payload.assignedOperatorId = "o2"
    /\ channel = <<>>

----------------------------------------------------------------------------
\* Properties of the worker processes

\* C16: in one assignment worker process at most one cycle is in flight:
\* assignTasks is called only when no call is in flight and isRunning is
\* clear, a cycle in flight has isRunning set, and a tick that finds
\* isRunning set is logged as skipped and changes nothing of the cycle or
\* of the database.
C16_OneCycleInFlight ==
  [][\A w \in DOMAIN wproc :
       /\ (wpc'[w] = "awaiting" /\ apc'[w] = "idle" /\ (wpc[w] # "awaiting" \/ apc[w] # "idle")) =>
            /\ ~isRunning[w]
            /\ wpc[w] = "none"
            /\ apc[w] \in {"idle", "done", "failed"}
       /\ apc'[w] \in {"lock", "scan", "pick", "assign", "audit", "commit", "publish", "rollback"} =>
            /\ isRunning'[w]
            /\ wpc'[w] = "awaiting"
       /\ (isRunning[w] /\ wlog'[w] = "skipped" /\ wlog[w] # "skipped") =>
            /\ avars' = avars
            /\ dbvars' = dbvars
            /\ isRunning'[w]]_vars

\* a tick was skipped while the cycle holds a candidate and an operator
C16_Witness ==
  \E w \in DOMAIN wproc :
    /\ wlog[w] = "skipped"
    /\ isRunning[w]
    /\ apc[w] = "assign"

\* C17: a cycle that throws does not halt a periodic worker.  When
\* runAssignmentCycle resumes after a failed assignTasks it logs the failure
\* and clears isRunning, and unless the worker is shut down a later tick
\* starts a new cycle; a failed aggregation settles the cycle of the metrics
\* worker like a successful one, and unless the worker is shutting down the
\* next run gets its timer.
C17_FailedCycleDoesNotHalt ==
  /\ [][\A w \in DOMAIN wproc :
          (wpc[w] = "awaiting" /\ apc[w] = "failed" /\ wpc'[w] = "none") =>
            (~isRunning'[w] /\ wlog'[w] = "failed")]_vars
  /\ \A w \in AssignmentWorkers :
       (wlog[w] = "failed" /\ wpc[w] = "none") ~> (ClientCheckedOut(w) \/ wproc[w] # "up")
  /\ (mlog = "failed" /\ mcycle = "settled") ~> (timerPending \/ isShuttingDown)

\* after a failed cycle the assignment worker runs a new one, and after a
\* failed aggregation the metrics worker sleeps until its next run
C17_Witness ==
  /\ \E w \in DOMAIN wproc : wlog[w] = "failed" /\ isRunning[w] /\ apc[w] = "lock"
  /\ mlog = "failed"
  /\ mpc = "sleeping"
  /\ timerPending
  /\ ~isShuttingDown

\* C18: once the metrics worker is told to shut down, the flag stays set, no
\* timer is pending and none is armed, no aggregation cycle starts, and
\* pool.end is called (and the process exits) only when no cycle is running.
C18_MetricsShutdown ==
  [][/\ isShuttingDown => isShuttingDown'
     /\ isShuttingDown' => ~timerPending'
     /\ isShuttingDown => ~(mcycle # "running" /\ mcycle' = "running")
     /\ msd' # "none" => isShuttingDown'
     /\ msd' \in {"ending", "exited"} => (mcycle' # "running" /\ ~runningPromise')
     /\ (msd = "awaitingCycle" /\ mcycle = "running") => msd' = "awaitingCycle"]_vars

\* the signal came while a cycle was running: the cycle finished, no timer
\* was armed after it, and the process has exited
C18_Witness ==
  /\ msd = "exited"
  /\ mpc = "stopped"
  /\ mlog # None
  /\ ~timerPending
  /\ mcycle = "none"

\* C19: on shutdown the assignment worker has no interval left, and it
\* calls pool.end and exits only when no cycle is in flight.
C19_ShutdownAwaitsCycle ==
  \A w \in DOMAIN wproc :
    wproc[w] \in {"ending", "exited"} =>
      /\ ~intervalHandle[w]
      /\ ~isRunning[w]

----------------------------------------------------------------------------
\* Properties of the socket server

\* the payload of the token a connected socket sent in its handshake
TokenPayloadOf(socket) == SignedTokens[extractTokenFromSocket(socket.handshake).s[1]]

\* the token carries one of the manager roles
CarriesManagerRole(payload) == normalizeRoles(payload) \cap MANAGER_ROLES # {}

\* C21: a connected socket whose token carries no manager role and operator
\* id X is in room operator:X and in no other room, in particular not in
\* room manager; every event it has received is a task event whose payload
\* resolves to operator X, so presence events, events of other operators and
\* events without an operator identifier do not reach it.
C21_OperatorSocketIsolation ==
  \A s \in DOMAIN sockets :
    (sockets[s].state = "connected" /\ ~CarriesManagerRole(TokenPayloadOf(sockets[s]))) =>
      LET X == Text(OperatorIdClaim(TokenPayloadOf(sockets[s])).s) IN
        /\ MANAGER_ROOM \notin sockets[s].rooms
        /\ sockets[s].rooms = {"operator:" \o X}
        /\ \A e \in sockets[s].received :
             /\ e.type \in {TASK_UPDATED, TASK_ASSIGNED}
             /\ resolveOperatorIdFromPayload(e.payload) = X

\* an operator socket and a manager socket after two events, one of the
\* operator and one of another operator: the manager has received both, the
\* operator socket only its own
C21_Witness ==
  /\ channel = <<>>
  /\ sockets["s1"].state = "connected"
  /\ sockets["s1"].handshake.auth = jsString(<<"jwtOperatorPadded">>)
  /\ sockets["s2"].state = "connected"
  /\ sockets["s2"].handshake.auth = jsString(<<"jwtAdmin">>)
  /\ \E e1 \in sockets["s2"].received, e2 \in sockets["s2"].received :
       /\ e1.type = TASK_UPDATED /\ e1.payload.operatorId = "o1"
       /\ e2.type = TASK_UPDATED /\ e2.payload.operatorId = None
       /\ e2.payload.assignedOperatorId = "o2"
       /\ sockets["s1"].received = {e1}

\* C22: a socket is connected only if its handshake carries a token in
\* auth, the Authorization header or the query string, JWT_SECRET is set,
\* the token verifies and its payload carries a manager role or an operator
\* identifier that is a string with something else than blanks in it; every
\* other connection attempt is rejected with code UNAUTHORIZED, and a
\* rejected socket is in no room and has received nothing.
C22_AdmissionRule ==
  \A s \in DOMAIN sockets :
    LET token == extractTokenFromSocket(sockets[s].handshake)
        hasToken == \E v \in {sockets[s].handshake.auth, sockets[s].handshake.authorization,
                              sockets[s].handshake.query} :
                      v.t = "string" /\ trim(v.s) # <<>>
        admissible ==
          /\ hasToken
          /\ jwtSecret
          /\ TokenVerifies(token.s)
          /\ \/ CarriesManagerRole(SignedTokens[token.s[1]])
             \/ \E v \in {SignedTokens[token.s[1]].operatorId, SignedTokens[token.s[1]].operator_id} :
                  v.t = "string" /\ trim(v.s) # <<>>
    IN /\ sockets[s].state \in {"closed", "connected", "rejected"}
       /\ sockets[s].state = "connected" => (admissible /\ sockets[s].error = None)
       /\ sockets[s].state = "rejected" =>
            /\ ~admissible
            /\ sockets[s].error = "UNAUTHORIZED"
            /\ sockets[s].rooms = {}
            /\ sockets[s].received = {}
            /\ ~sockets[s].tracked

\* a socket admitted with its token after "BEARER " in the query string,
\* whose operator identifier comes from operator_id
C22_Witness ==
  /\ sockets["s1"].state = "connected"
  /\ sockets["s1"].handshake.auth = jsString(<<" ">>)
  /\ sockets["s1"].handshake.query = jsString(<<" ", "BEARER", " ", " ", "jwtOperatorSnake", " ">>)
  /\ sockets["s1"].rooms = {"operator:o2"}

\* C23: when the subscriber dispatches a message, every handler of the
\* subscribers set is called with it, whether or not a handler threw; the
\* messages behind it stay on the channel with the same handlers registered,
\* and a message on the channel can always be dispatched.
C23_HandlerFailureIsContained ==
  /\ [][(channel # <<>> /\ channel' = Tail(channel) /\ isSubscribed') =>
          /\ \A h \in Subscribers :
               \E x \in invoked' : x.handler = h /\ x.event = Head(channel)
          /\ subscribers' = subscribers]_vars
  /\ [](channel # <<>> =>
          ENABLED (\E throwing \in SUBSET (Subscribers \ {broadcastHandler}) : Deliver(throwing)))

\* handler h1 threw at one message; the handler registered
\* behind it was called with that message, and all three with another one
C23_Witness ==
  /\ channel = <<>>
  /\ subscribers = <<broadcastHandler, "h1", "h2">>
  /\ \E e1 \in DispatchEvents, e2 \in DispatchEvents :
       /\ e1 # e2
       /\ [handler |-> "h1", event |-> e1, threw |-> TRUE] \in invoked
       /\ [handler |-> "h2", event |-> e1, threw |-> FALSE] \in invoked
       /\ \A h \in {broadcastHandler, "h1", "h2"} :
            [handler |-> h, event |-> e2, threw |-> FALSE] \in invoked

----------------------------------------------------------------------------
\* Properties of the timestamps of a task

\* C30: started_at of a task is set by the step that takes the task to
\* in_progress while started_at is NULL, to the instant of that step; a step
\* that finds started_at set leaves it as it is (pause, resume, complete,
\* cancel), and a step that does not take the task to in_progress leaves
\* started_at as it was.
C30_StartedAtSetOnce ==
  [][\A t \in DOMAIN tasks :
       /\ tasks[t].startedAt # NoTime => tasks'[t].startedAt = tasks[t].startedAt
       /\ (tasks[t].startedAt = NoTime /\ tasks'[t].status = "in_progress"
             /\ tasks[t].status # "in_progress") =>
            tasks'[t].startedAt = Now(tasks[t])
       /\ ~(tasks'[t].status = "in_progress" /\ tasks[t].status # "in_progress") =>
            tasks'[t].startedAt = tasks[t].startedAt]_vars

\* a task started, paused and resumed: started_at is still the instant of
\* the first transition to in_progress
C30_Witness ==
  \E t \in DOMAIN tasks :
    /\ tasks[t].status = "in_progress"
    /\ tasks[t].startedAt # NoTime
    /\ Now(tasks[t]) - tasks[t].startedAt >= 3 * TickSeconds
    /\ \E i \in DOMAIN audit[t] : audit[t][i].toStatus = "paused"

----------------------------------------------------------------------------
\* Properties of the labor metrics

\* an aggregation run has committed in this step
AggregationCommits == mcycle = "running" /\ mcycle' = "settled" /\ mlog' = "stats"

\* the rows of a labor_daily_metrics table for one date
RowsOfDate(table, date) == {i \in DOMAIN table : table[i].date = date}

\* C24: labor_daily_metrics never holds two rows for one (operator, date).
\* A run for date D that commits leaves exactly one row of D for every
\* operator, reports as inserted the operators that had no row of D (all of
\* them in the first run for D) and as updated the others, writes zero
\* metrics for an operator without a task completed on D and leaves the rows
\* of other dates alone; when the rows of D are already those of the tasks
\* as they are, the run changes no value of the table and reports every row
\* as updated (insertedCount = 0).
C24_IdempotentUpsert ==
  /\ [](\A i, j \in DOMAIN laborDailyMetrics :
          (/\ laborDailyMetrics[i].operatorId = laborDailyMetrics[j].operatorId
           /\ laborDailyMetrics[i].date = laborDailyMetrics[j].date) => i = j)
  /\ [][AggregationCommits =>
          LET D == mstats'.date
              before == RowsOfDate(laborDailyMetrics, D)
              after == RowsOfDate(laborDailyMetrics', D)
              without == {o \in DOMAIN operators :
                            \A i \in before : laborDailyMetrics[i].operatorId # o}
              expected == buildUpsertRows(OperatorRows, D)
          IN /\ \A o \in DOMAIN operators :
                  Cardinality({i \in after : laborDailyMetrics'[i].operatorId = o}) = 1
             /\ mstats'.operatorsProcessed = Cardinality(DOMAIN operators)
             /\ mstats'.insertedCount = Cardinality(without)
             /\ mstats'.updatedCount = Cardinality(DOMAIN operators \ without)
             /\ \A i \in after :
                  (\A t \in DOMAIN tasks :
                     ~(/\ tasks[t].status = "completed"
                       /\ tasks[t].operator = laborDailyMetrics'[i].operatorId
                       /\ DateOf(tasks[t].completedAt) = D)) =>
                    /\ laborDailyMetrics'[i].tasksCompleted = 0
                    /\ laborDailyMetrics'[i].unitsProcessed = 0
                    /\ laborDailyMetrics'[i].avgTaskTime[1] = 0
                    /\ laborDailyMetrics'[i].utilizationPercent = 0
             /\ \A i \in DOMAIN laborDailyMetrics :
                  /\ i \in DOMAIN laborDailyMetrics'
                  /\ laborDailyMetrics[i].date # D => laborDailyMetrics'[i] = laborDailyMetrics[i]
             /\ {laborDailyMetrics[i] : i \in before} = {expected[k] : k \in DOMAIN expected} =>
                  /\ laborDailyMetrics' = laborDailyMetrics
                  /\ mstats'.insertedCount = 0]_vars

\* a run for day 2 that found the rows of day 2 in place: operator o1 has
\* completed both tasks on that day, operator o2 none
C24_Witness ==
  /\ mstats.date = 2
  /\ mstats.insertedCount = 0
  /\ mstats.updatedCount = 2
  /\ mstats.totalUnitsProcessed = 3
  /\ \E i, j \in RowsOfDate(laborDailyMetrics, 2) :
       /\ laborDailyMetrics[i].operatorId = "o1"
       /\ laborDailyMetrics[i].tasksCompleted = 2
       /\ laborDailyMetrics[i].utilizationPercent = 10000
       /\ laborDailyMetrics[j].operatorId = "o2"
       /\ laborDailyMetrics[j].tasksCompleted = 0
  /\ RowsOfDate(laborDailyMetrics, 3) # {}

----------------------------------------------------------------------------
\* Properties of the pure functions

\* the call of fn has returned
HasReturned(fn) == fcall.fn = fn /\ fret.state = "returned"

\* C25: calculateUtilizationPercent returns a value from 0 to 100 (0 to
\* 10000 hundredths): 0 when the shift duration is zero, negative or not
\* finite; 100 when the active time exceeds a positive shift; otherwise, for
\* an active time from 0 to the shift, 100 * active / shift to within half a
\* hundredth.
C25_UtilizationCases ==
  HasReturned("calculateUtilizationPercent") =>
    LET active == fcall.args[1]
        shift == fcall.args[2]
    IN /\ fret.value >= 0 /\ fret.value <= 10000
       /\ (~isFinite(shift) \/ shift.n <= 0) => fret.value = 0
       /\ (isFinite(shift) /\ shift.n > 0) =>
            /\ (active = jsInfinity \/ (isFinite(active) /\ active.n > shift.n)) =>
                 fret.value = 10000
            /\ (isFinite(active) /\ active.n >= 0 /\ active.n <= shift.n) =>
                 /\ 2 * shift.n * fret.value - 2 * 10000 * active.n <= shift.n
                 /\ 2 * 10000 * active.n - 2 * shift.n * fret.value <= shift.n

\* seconds of the day of a wall-clock time
SecondsOfDay(time) == 3600 * time.hour + 60 * time.minute + time.second

\* a wall-clock time: 00:00:00 to 23:59:59
IsWallClock(value) ==
  value.t = "time" /\ value.hour <= 23 /\ value.minute <= 59 /\ value.second <= 59

\* C26: for wall-clock times start and end, calculateShiftDurationSeconds
\* returns end - start when end > start, 0 when they are equal and
\* 86400 - start + end otherwise, a value from 0 to 86399.
C26_ShiftDuration ==
  (fcall.fn = "calculateShiftDurationSeconds" /\ fret.state # "pending"
     /\ IsWallClock(fcall.args[1]) /\ IsWallClock(fcall.args[2])) =>
    LET start == SecondsOfDay(fcall.args[1])
        end == SecondsOfDay(fcall.args[2])
    IN /\ fret.state = "returned"
       /\ end > start => fret.value = end - start
       /\ end = start => fret.value = 0
       /\ end < start => fret.value = 86400 - start + end
       /\ fret.value >= 0 /\ fret.value < 86400

\* an overnight shift from 22:30:59 to 08:00:00
C26_Witness ==
  /\ HasReturned("calculateShiftDurationSeconds")
  /\ fcall.args = <<jsTime(22, 30, 59), jsTime(8, 0, 0)>>
  /\ fret.value = 34141

\* the priority the claim gives to a number of whole days
ClaimedPriority(days) ==
  IF days <= 0 THEN 100 ELSE IF days = 1 THEN 90 ELSE IF days \in {2, 3} THEN 70 ELSE 50

\* C27: calculatePickPriority(shipDate, now) is 100 when
\* floor((shipDate - now) / 1 day) <= 0, 90 when it is 1, 70 when it is 2 or
\* 3 and 50 otherwise; no ship date that is not later has a lower priority.
C27_PickPriority ==
  HasReturned("calculatePickPriority") =>
    LET difference == fcall.args[1].ms - fcall.args[2].ms IN
      /\ fret.value = ClaimedPriority(difference \div msPerDay)
      /\ \A other \in ShipDateValues :
           (other.t = "date" /\ other.ms - fcall.args[2].ms <= difference) =>
             ClaimedPriority((other.ms - fcall.args[2].ms) \div msPerDay) >= fret.value

\* one millisecond less than three days to the ship date: priority 70
C27_Witness ==
  /\ HasReturned("calculatePickPriority")
  /\ fcall.args = <<jsDate(4 * msPerDay - 1), jsDate(msPerDay)>>
  /\ fret.value = 70

\* the line of the event a line of a task spec was made from
EventLineOf(type, line) ==
  [skuId |-> line.skuId, quantity |-> line.quantity,
   locationId |-> IF type = "sales_order_ready_for_pick"
                    THEN line.fromLocationId ELSE line.toLocationId]

\* C28: the task specs built for an event have one spec for every zone a
\* line's location resolves to and no two specs for one zone; every line of
\* the event is in exactly one spec, that of the zone of its pick or
\* destination location; estimatedTimeSeconds of a spec is base + (sum of
\* its lines' quantities) * perUnit.  When the location of a line resolves
\* to no zone the call fails with status 400 and returns no spec.
C28_TaskSpecsPartitionLines ==
  (fcall.fn = "buildTaskSpecList" /\ fret.state # "pending") =>
    LET event == fcall.args[1]
        sales == event.type = "sales_order_ready_for_pick"
        unresolved == \E i \in DOMAIN event.lines :
                        event.lines[i].locationId \notin DOMAIN location_zones
    IN IF unresolved
         THEN fret = Thrown("400")
         ELSE /\ fret.state = "returned"
              /\ LET specs == fret.value
                      Units(g) == SumQuantity(specs[g].lines)
                  IN /\ {specs[g].zoneId : g \in DOMAIN specs} =
                          {location_zones[event.lines[i].locationId] : i \in DOMAIN event.lines}
                     /\ \A g, h \in DOMAIN specs : specs[g].zoneId = specs[h].zoneId => g = h
                     /\ \A i \in DOMAIN event.lines :
                          LET copies == Cardinality({k \in DOMAIN event.lines :
                                                      event.lines[k] = event.lines[i]})
                              Found(g) == {k \in DOMAIN specs[g].lines :
                                             EventLineOf(event.type, specs[g].lines[k]) = event.lines[i]}
                          IN \A g \in DOMAIN specs :
                               Cardinality(Found(g)) =
                                 IF specs[g].zoneId = location_zones[event.lines[i].locationId]
                                   THEN copies ELSE 0
                     /\ \A g \in DOMAIN specs :
                          /\ \A k \in DOMAIN specs[g].lines :
                               \E i \in DOMAIN event.lines :
                                 EventLineOf(event.type, specs[g].lines[k]) = event.lines[i]
                          /\ specs[g].estimatedTimeSeconds =
                               IF sales
                                 THEN DEFAULT_PICK_BASE_TIME_SECONDS
                                        + Units(g) * DEFAULT_PICK_TIME_PER_UNIT_SECONDS
                                 ELSE DEFAULT_PUTAWAY_BASE_TIME_SECONDS
                                        + Units(g) * DEFAULT_PUTAWAY_TIME_PER_UNIT_SECONDS

\* a sales order with lines at locations 1, 2 and 4: a spec of zone zA with
\* the lines of locations 1 and 4 (3 units, 126 s) and one of zone zB
C28_Witness ==
  /\ HasReturned("buildTaskSpecList")
  /\ fcall.args[1].type = "sales_order_ready_for_pick"
  /\ fcall.args[1].lines =
       <<[skuId |-> 1, quantity |-> 2, locationId |-> 1],
         [skuId |-> 1, quantity |-> 1, locationId |-> 2],
         [skuId |-> 1, quantity |-> 1, locationId |-> 4]>>
  /\ Len(fret.value) = 2
  /\ fret.value[1].zoneId = "zA"
  /\ Len(fret.value[1].lines) = 2
  /\ fret.value[1].estimatedTimeSeconds = 126
  /\ fret.value[2].zoneId = "zB"
  /\ fret.value[2].estimatedTimeSeconds = 102

\* the jobs that have finished for good
Finished(id) == id \in DOMAIN jobs /\ jobs[id].state \in {"completed", "failed"}

\* C29: a task-generation job is attempted at most 5 times: a job is failed
\* only by its fifth failure, a retry follows only a failure that was not
\* the fifth, and a job that is completed or failed is never processed again;
\* and whatever is enqueued under the same event key, the event is
\* recorded at most once and no zone receives a second task for it
C29_AtMostFiveAttemptsOneTaskSet ==
  /\ [](/\ \A id \in DOMAIN jobs :
              /\ jobs[id].attemptsMade <= jobs[id].attemptsStarted
              /\ jobs[id].attemptsStarted <= 5
              /\ jobs[id].state = "failed" => jobs[id].attemptsMade = 5
              /\ jobs[id].state = "completed" => jobs[id].attemptsMade \in 1..5
        /\ \A i, j \in DOMAIN events : events[i].eventKey = events[j].eventKey => i = j
        /\ \A t, u \in DOMAIN tasks :
              tasks[t].eventKey = tasks[u].eventKey /\ tasks[t].zone = tasks[u].zone => t = u)
  /\ [][\A id \in EventKeys :
          /\ Finished(id) /\ id \in DOMAIN jobs' => jobs'[id] = jobs[id]
          /\ id \in DOMAIN jobs /\ id \in DOMAIN jobs' /\ jobs[id].state = "active"
               /\ jobs'[id].state = "delayed" => jobs'[id].attemptsMade < 5]_vars

\* one job has failed for the fifth time and stays failed, while a worker
\* has met the event key of a completed job again and skipped it
C29_Witness ==
  \E id, other \in DOMAIN jobs, w \in DOMAIN gpc :
    /\ jobs[id].state = "failed" /\ jobs[id].attemptsStarted = 5
    /\ jobs[other].state = "completed"
    /\ gres[w].skipped /\ gev[w].eventKey = other
    /\ \E t \in DOMAIN tasks : tasks[t].eventKey = other

ErrorCodes == {"400", "404", "409", "500"}

\* C31: an updateStatus call that fails leaves the task rows and the audit
\* log as they were and publishes nothing: no step of a call before its COMMIT
\* and no step of its ROLLBACK changes the committed rows or the channel, a
\* call that failed ends through the ROLLBACK, and a call past its COMMIT
\* does not fail any more
C31_FailedCallChangesNothing ==
  [][\A p \in DOMAIN upc :
       upc'[p] # upc[p] =>
         /\ upc[p] \in {"idle", "done", "select", "update", "audit", "rollback"} =>
              tasks' = tasks /\ audit' = audit /\ channel' = channel
         /\ upc'[p] = "rollback" =>
              ures'[p] \in ErrorCodes /\ tasks' = tasks /\ audit' = audit /\ channel' = channel
         /\ (upc'[p] = "done" /\ ures'[p] \in ErrorCodes) => upc[p] = "rollback"
         /\ upc[p] \in {"publish", "publishAssigned"} =>
              upc'[p] # "rollback" /\ ures'[p] \notin ErrorCodes]_vars

\* a call has failed with 409 on a task that was updated before and whose
\* event is on the channel, with nothing pending and no lock left behind
C31_Witness ==
  \E p \in DOMAIN upc :
    /\ upc[p] = "done" /\ ures[p] = "409"
    /\ ucall[p].expectedVersion # NoVersion
    /\ ucur[p].version = tasks[1].version /\ tasks[1].version > 1
    /\ Len(audit[1]) = tasks[1].version - 1
    /\ channel # <<>>
    /\ uw[p] = NoRow /\ tlock[1] = None

\* C32: the assignment worker changes only tasks that are created when it
\* changes them: a row a cycle has a pending write for is committed as created
\* and locked by the cycle, and the COMMIT of a cycle changes only rows that
\* are created, to assigned with an operator and the next version; a task
\* that has left created is left alone by every step of a cycle
C32_WorkerChangesOnlyCreated ==
  /\ [](\A a \in DOMAIN apc, t \in DOMAIN tasks :
          aw[a][t] # NoRow =>
            tasks[t].status = "created" /\ tlock[t] = a /\ aw[a][t].status = "assigned")
  /\ [][\A a \in DOMAIN apc, t \in DOMAIN tasks :
          (apc'[a] # apc[a] /\ tasks'[t] # tasks[t]) =>
            /\ apc[a] = "commit"
            /\ tasks[t].status = "created" /\ tasks[t].operator = None
            /\ tasks'[t].status = "assigned" /\ tasks'[t].operator \in DOMAIN operators
            /\ tasks'[t].version = tasks[t].version + 1]_vars

\* a caller holds the lock of a created task with its cancel pending while
\* a cycle, having skipped that row, works on the other task
C32_Witness ==
  \E p \in DOMAIN upc, a \in DOMAIN apc, t, u \in DOMAIN tasks :
    /\ t # u
    /\ upc[p] = "commit" /\ ucall[p].taskId = t /\ tlock[t] = p
    /\ ucur[p].status = "created" /\ uw[p].status = "cancelled"
    /\ apc[a] = "commit" /\ aw[a][u] # NoRow /\ aw[a][t] = NoRow
    /\ astats[a].scannedTasks = 1

\* C33: every task whose status is assigned, in_progress or paused has an
\* assigned operator
C33_ActiveTaskHasOperator ==
  \A t \in DOMAIN tasks :
    tasks[t].status \in ACTIVE_TASK_STATUSES => tasks[t].operator # None

\* C34: for every task, version = 1 + the number of its audit rows, and the
\* task_version values of its audit rows are 2, 3, ..., version in this order
C34_VersionCountsAuditRows ==
  \A t \in DOMAIN tasks :
    /\ tasks[t].version = 1 + Len(audit[t])
    /\ \A i \in 1..Len(audit[t]) : audit[t][i].taskVersion = i + 1

\* a task assigned by a cycle and then started and paused by callers: three
\* audit rows with versions 2, 3, 4 on a task of version 4
C34_Witness ==
  \E t \in DOMAIN tasks :
    /\ tasks[t].version = 4 /\ tasks[t].status = "paused"
    /\ Len(audit[t]) = 3
    /\ audit[t][1].toStatus = "assigned" /\ audit[t][1].changedBy = None
    /\ tasks[t].operator # None
    /\ audit[t][3].taskVersion = 4

\* the zone of the task has an available operator with no active task
HasFreeOperator(t) ==
  \E o \in DOMAIN operators :
    /\ tasks[t].zone \in operators[o].zones
    /\ operators[o].status = "available"
    /\ ~\E u \in DOMAIN tasks :
         tasks[u].operator = o /\ tasks[u].status \in ACTIVE_TASK_STATUSES

\* C35: under fair repetition of assignment cycles a created task whose zone
\* has an available operator with no active task is eventually assigned,
\* unless the operator is taken or gone before
C35_EventuallyAssigned ==
  \A t \in {1, 2, 3} :
    (tasks[t].status = "created" /\ HasFreeOperator(t))
      ~> (tasks[t].status = "assigned" \/ ~HasFreeOperator(t))

\* C36: normalizeTaskGenerationEvent applied to its own output returns an
\* equal event: at every attempt the worker normalizes the data of the job to
\* the event the route enqueued, with the event key fixed at ingress
C36_NormalizeIsIdempotent ==
  (fcall.fn = "normalizeTaskGenerationEvent" /\ fret.state = "returned") =>
    /\ \A i \in DOMAIN fret.attempted :
         /\ fret.attempted[i] = Returned(fret.value)
         /\ fret.attempted[i].value.eventKey = fret.value.eventKey
    /\ \A uuid \in UUIDs : normalizeTaskGenerationEvent(fret.value, uuid) = Returned(fret.value)

\* a body without event key was given a key with the first UUID, and the
\* five attempts, drawing the other UUID, have all used that key
C36_Witness ==
  /\ fcall.fn = "normalizeTaskGenerationEvent" /\ fret.state = "returned"
  /\ ~Truthy(fcall.args[1].eventKey)
  /\ fret.value.eventKey = jsString(<<"sales_order_ready_for_pick", ":", "SO:", "A", " ", "1", ":", "uuid1">>)
  /\ Len(fret.attempted) = 5
  /\ fret.value.lines.a[1].quantity = jsNumber(12)
  /\ fret.value.shipDate = jsString(<<"1970-01-02T00:00:00.000Z">>)

\* C37: every execution of updateTaskStatus, assignTasks,
\* generateTasksForOrderEvent and aggregateLaborDailyMetrics, whether it
\* returns or throws at any statement, has ended the transaction it opened (the
\* last transaction statement it issued is a COMMIT or a ROLLBACK and the
\* transaction is no longer open) and has released the pool client it checked
\* out exactly once; no client is released twice or without a checkout, and a
\* returned execution has committed.
C37_TransactionEndedClientReleased ==
  tx.pc # None =>
    /\ tx.releases <= tx.checkouts
    /\ tx.checkouts <= 1
    /\ tx.pc \in {"returned", "thrown"} =>
         /\ tx.transaction # "open"
         /\ tx.transaction # None =>
              tx.issued[Len(tx.issued)] \in {"COMMIT", "ROLLBACK"}
         /\ tx.client = "pooled"
         /\ tx.releases = tx.checkouts
         /\ tx.pc = "returned" => tx.transaction = "committed" /\ tx.releases = 1

\* an execution whose COMMIT was rejected has rolled back, released its client
\* once and rethrown
C37_Witness ==
  /\ tx.pc = "thrown"
  /\ tx.issued = <<"BEGIN", "COMMIT", "ROLLBACK">>
  /\ tx.transaction = "rolledback"
  /\ tx.client = "pooled"
  /\ tx.releases = 1

\* the sockets of user u that are connected
SocketsOf(u) ==
  {s \in DOMAIN sockets : sockets[s].state = "connected" /\ sockets[s].authContext.userId = u}

\* C38: after any sequence of authenticated connects and disconnects, the
\* online user ids are exactly the user ids of the connected sockets, the
\* registry holds for every user exactly the ids of the user's connected
\* sockets (so a user with several sockets stays until the last one has
\* disconnected), and no entry of the registry is empty.
C38_OnlineUsersAreConnectedUsers ==
  /\ getOnlineUserIds(connectedUsers) =
       {sockets[s].authContext.userId :
          s \in {x \in DOMAIN sockets : sockets[x].state = "connected"}} \ {None}
  /\ getOnlineUserIds(connectedUsers) = {u \in {"u1", "u2", "u3", "u4"} : SocketsOf(u) # {}}
  /\ \A u \in DOMAIN connectedUsers :
       /\ connectedUsers[u] # {}
       /\ connectedUsers[u] = SocketsOf(u)

\* two users online, one of them with two connected sockets in one entry,
\* after a disconnect that had left nobody online
C38_Witness ==
  /\ getOnlineUserIds(connectedUsers) = {"u1", "u3"}
  /\ Cardinality(connectedUsers["u3"]) = 2
  /\ \E e \in emitted : e.event.type = USER_PRESENCE_UPDATED /\ e.event.payload.onlineUserIds = {}

\* the scheduled runs so far are on different local days
RunsOnDifferentDays ==
  \A i, j \in 1..Len(sched.runs) :
    i < j => /\ sched.runs[i] < sched.runs[j]
             /\ LocalOf(sched.zone, sched.runs[i]).date < LocalOf(sched.zone, sched.runs[j]).date

\* C39: the reschedule that follows a scheduled run is to an instant strictly
\* later than the current time, at most 24 hours ahead, at the configured
\* hour:minute; the scheduled runs are on different local days and no instant
\* is run twice.
C39_NextRunWithin24Hours ==
  sched.pc = "sleeping" /\ sched.runs # <<>> =>
    /\ sched.nextRunAt > sched.from
    /\ sched.nextRunAt - sched.from <= 24
    /\ LocalOf(sched.zone, sched.nextRunAt).hours = sched.runHour
    /\ RunsOnDifferentDays

====
